---- MODULE Spec2Model ----
(***************************************************************************)
(* A model of pathfinder's renderer: the quadtree texture allocator        *)
(* (renderer/src/allocator.rs) and the tiler (renderer/src/tiles.rs).      *)
(*                                                                         *)
(* The specifications share the variables:                                 *)
(*   Spec      a TextureAllocator driven by allocate and                   *)
(*             allocate_render_target calls;                               *)
(*   SpecTest  the quickcheck property prop_allocation_and_freeing_work:   *)
(*             allocate a vector of sizes on one atlas, then free every    *)
(*             returned location;                                          *)
(*   SpecAtlas one TextureAtlasAllocator under any interleaving of         *)
(*             allocate and free of live locations;                        *)
(*   SpecFill  a TextureAllocator filled with 2x2 and then 1x1 requests;   *)
(*   SpecRaw   one TextureAtlasAllocator given any i32 sizes, in a debug   *)
(*             and in a release build;                                     *)
(*   SpecTiler one Tiler tiling a path strip by strip, and tiling it again *)
(*             once it is done;                                            *)
(*   SpecTilerFair SpecTiler under weak fairness of its steps;             *)
(*   SpecScene two Tilers of one SceneBuilder, their steps interleaved;    *)
(*   SpecCurve one Tiler on outlines with cubic segments;                  *)
(*   SpecWinding one Tiler in a strip whose winding leaves the i8 range;   *)
(*   SpecStream the RenderCommands a scene build sends to the renderer.    *)
(***************************************************************************)
EXTENDS Integers, Sequences, FiniteSets, TLC

(***************************************************************************)
(* Bounds of the model.                                                    *)
(***************************************************************************)
\* log2 of the atlas length: the source's 1024 = 2^10 is scaled down.
AtlasLog == 2
\* Number of TextureAllocator calls explored in Spec.
MaxCalls == 4
\* Length of the `sizes` vector of the quickcheck property.
MaxSizes == 4
\* Number of allocate calls explored in SpecAtlas.
MaxLive == 5
\* SpecFill: number of 2x2 requests, and of the 1x1 requests after them.
MaxBig == 17
MaxSmall == 200
\* Width in bits of the machine words: the source's u32 and i32 are scaled
\* down to IntBits bits, i32 to -2^(IntBits-1) .. 2^(IntBits-1) - 1.
IntBits == 6
\* Number of TextureAtlasAllocator::allocate calls explored in SpecRaw.
MaxRaw == 3
\* SpecWinding: the largest winding number, in either direction, that the
\* edges left of a tile add up to; an i8 holds -128 .. 127.
MaxWinding == 130
\* SpecStream: number of RenderCommands sent between Start and Finish.
MaxCommands == 4

(***************************************************************************)
(* State.                                                                  *)
(***************************************************************************)
VARIABLES
    atlas_texture_length, \* the value ATLAS_TEXTURE_LENGTH is built with
    pages,      \* TextureAllocator.pages
    requested,  \* SpecFill: the sizes requested so far, in order
    returned,   \* the TextureLocations the TextureAllocator returned, in order
    calls,      \* number of allocation calls made
    lastCall,   \* the most recent call: its operation, arguments and result
    atlas,      \* the TextureAtlasAllocator of the test / of SpecAtlas
    locations,  \* the test's `locations` vector
    live,       \* SpecAtlas: the rectangles returned and not yet freed
    pc,         \* which driver runs, and the test's position
    failure,    \* the panic the program stopped with, or "none"
    tilers,     \* the Tilers of the paths being tiled
    scene_builder, \* the SceneBuilder the Tilers share
    previous,   \* SpecTiler: the Tiler of the first tiling, once the path is tiled again
    stream      \* SpecStream: the RenderCommands sent so far, in order

vars == <<atlas_texture_length, pages, requested, returned, calls, lastCall, atlas, locations, live,
          pc, failure, tilers, scene_builder, previous, stream>>

RECURSIVE Pow2(_)
Pow2(k) == IF k = 0 THEN 1 ELSE 2 * Pow2(k - 1)

\* const ATLAS_TEXTURE_LENGTH: the source's 1024 is a power of two fixed when
\* the program is built; the specifications build it with 2^AtlasLog, or
\* with the length a scenario names.
ATLAS_TEXTURE_LENGTH == atlas_texture_length

(***************************************************************************)
(* Geometry: Vector2I and RectI (origin and lower-right corner).           *)
(***************************************************************************)
Vector2I_new(x, y) == [x |-> x, y |-> y]
Vector2I_default == Vector2I_new(0, 0)
Vector2I_splat(v) == Vector2I_new(v, v)
Vector2I_add(a, b) == Vector2I_new(a.x + b.x, a.y + b.y)

RectI_new(origin, size) == [origin |-> origin, lower_right |-> Vector2I_add(origin, size)]
RectI_origin(r) == r.origin
RectI_size(r) == Vector2I_new(r.lower_right.x - r.origin.x, r.lower_right.y - r.origin.y)
RectI_width(r) == r.lower_right.x - r.origin.x

Max(a, b) == IF a >= b THEN a ELSE b
Min(a, b) == IF a <= b THEN a ELSE b

\* Option<T>: None, or Some(v).
None == <<>>
Some(v) == <<v>>
IsSome(o) == o # None
Unwrap(o) == o[1]

(***************************************************************************)
(* u32::next_power_of_two: the smallest power of two >= n (1 for n = 0).   *)
(* When that power does not fit the word the call panics in a build with   *)
(* overflow checks and returns 0 in a build without them.                  *)
(***************************************************************************)
RECURSIVE next_power_of_two_from(_, _)
next_power_of_two_from(p, n) == IF p >= n THEN p ELSE next_power_of_two_from(2 * p, n)

\* The value returned when the call does not panic.
next_power_of_two(n) == next_power_of_two_from(1, n) % Pow2(IntBits)

\* The call overflows the word.
next_power_of_two_overflows(n) == next_power_of_two_from(1, n) >= Pow2(IntBits)

\* `as u32` of an i32: the value modulo 2^IntBits.
as_u32(v) == v % Pow2(IntBits)

I32_MIN == 0 - Pow2(IntBits - 1)
I32_MAX == Pow2(IntBits - 1) - 1

(***************************************************************************)
(* enum TreeNode { EmptyLeaf, FullLeaf, Parent([Box<TreeNode>; 4]) }       *)
(***************************************************************************)
EmptyLeaf == [tag |-> "EmptyLeaf", kids |-> <<>>]
FullLeaf == [tag |-> "FullLeaf", kids |-> <<>>]
Parent(kids) == [tag |-> "Parent", kids |-> kids]

\* merge_if_necessary that merges as soon as one child is empty.
merge_if_necessary_any(self) ==
    IF self.tag = "Parent"
    THEN IF \E i \in 1..4 : self.kids[i].tag = "EmptyLeaf" THEN EmptyLeaf ELSE self
    ELSE self

\* merge_if_necessary that never merges.
merge_if_necessary_never(self) == self

\* TreeNode::merge_if_necessary
merge_if_necessary(self) ==
    IF self.tag = "Parent"
    THEN IF \A i \in 1..4 : self.kids[i].tag = "EmptyLeaf" THEN EmptyLeaf ELSE self
    ELSE self

\* kid_origin with the top right child placed at the node's own origin.
kid_origin_no_x_offset(this_origin, kid_size, i) ==
    CASE i = 0 -> this_origin
      [] i = 1 -> this_origin
      [] i = 2 -> Vector2I_add(this_origin, Vector2I_new(0, kid_size))
      [] i = 3 -> Vector2I_add(this_origin, Vector2I_splat(kid_size))

\* kid_origin that moves the bottom children down by kid_size less one.
kid_origin_short_y(this_origin, kid_size, i) ==
    CASE i = 0 -> this_origin
      [] i = 1 -> Vector2I_add(this_origin, Vector2I_new(kid_size, 0))
      [] i = 2 -> Vector2I_add(this_origin, Vector2I_new(0, kid_size - 1))
      [] i = 3 -> Vector2I_add(this_origin, Vector2I_new(kid_size, kid_size - 1))

\* kid_origin with the top right and the bottom left child exchanged.
kid_origin_swapped(this_origin, kid_size, i) ==
    CASE i = 0 -> this_origin
      [] i = 1 -> Vector2I_add(this_origin, Vector2I_new(0, kid_size))
      [] i = 2 -> Vector2I_add(this_origin, Vector2I_new(kid_size, 0))
      [] i = 3 -> Vector2I_add(this_origin, Vector2I_splat(kid_size))

\* Origin of child i (0 = top left, 1 = top right, 2 = bottom left,
\* 3 = bottom right) of a node at this_origin whose children have kid_size.
kid_origin(this_origin, kid_size, i) ==
    CASE i = 0 -> this_origin
      [] i = 1 -> Vector2I_add(this_origin, Vector2I_new(kid_size, 0))
      [] i = 2 -> Vector2I_add(this_origin, Vector2I_new(0, kid_size))
      [] i = 3 -> Vector2I_add(this_origin, Vector2I_splat(kid_size))

\* The node a leaf turns into before the recursion into its children.
split(self) ==
    IF self.tag = "EmptyLeaf"
    THEN Parent(<<EmptyLeaf, EmptyLeaf, EmptyLeaf, EmptyLeaf>>)
    ELSE self

\* no_room with <= for <: a perfect fit is rejected.
no_room_le(self, this_size, requested_size) ==
    self.tag = "FullLeaf" \/ this_size <= requested_size

\* Whether a node of this_size is rejected before it is looked into.
no_room(self, this_size, requested_size) ==
    self.tag = "FullLeaf" \/ this_size < requested_size

\* The element of a one-element set: binds a result that is used twice.
Only(S) == CHOOSE x \in S : TRUE

\* TreeNode::allocate: the node after the call and the returned Option<RectI>.
RECURSIVE TreeNode_allocate(_, _, _, _)

\* The recursion of TreeNode::allocate into the children from child i on:
\* the first child that returns a rect ends it, and when all four have
\* failed merge_if_necessary is called.
RECURSIVE allocate_in_kids(_, _, _, _, _)
allocate_in_kids(kids, i, this_origin, kid_size, requested_size) ==
    IF i > 3
    THEN [node |-> merge_if_necessary(Parent(kids)), rect |-> None]
    ELSE Only({IF IsSome(r.rect)
               THEN [node |-> Parent([kids EXCEPT ![i + 1] = r.node]), rect |-> r.rect]
               ELSE allocate_in_kids([kids EXCEPT ![i + 1] = r.node], i + 1,
                                     this_origin, kid_size, requested_size) :
               r \in {TreeNode_allocate(kids[i + 1], kid_origin(this_origin, kid_size, i),
                                        kid_size, requested_size)}})

TreeNode_allocate(self, this_origin, this_size, requested_size) ==
    IF no_room(self, this_size, requested_size)
    THEN [node |-> self, rect |-> None]
    ELSE IF self.tag = "EmptyLeaf" /\ this_size = requested_size
    THEN [node |-> FullLeaf,
          rect |-> Some(RectI_new(this_origin, Vector2I_splat(this_size)))]
    ELSE allocate_in_kids(split(self).kids, 0, this_origin, this_size \div 2,
                          requested_size)

\* The child of a node at this_origin, with children of child_size, that
\* TreeNode::free descends into for requested_origin.
free_child_index(this_origin, child_size, requested_origin) ==
    LET this_center == Vector2I_add(this_origin, Vector2I_splat(child_size))
    IN  IF requested_origin.y < this_center.y
        THEN IF requested_origin.x < this_center.x THEN 0 ELSE 1
        ELSE IF requested_origin.x < this_center.x THEN 2 ELSE 3

\* TreeNode::free: the node after the call, and whether the call reached
\* the unreachable!() arm (a leaf above the block to free).
RECURSIVE TreeNode_free(_, _, _, _, _)
TreeNode_free(self, this_origin, this_size, requested_origin, requested_size) ==
    IF this_size <= requested_size
    THEN IF this_size = requested_size /\ this_origin = requested_origin
         THEN [node |-> EmptyLeaf, panic |-> FALSE]
         ELSE [node |-> self, panic |-> FALSE]
    ELSE
      LET child_size == this_size \div 2
          child_index == free_child_index(this_origin, child_size, requested_origin)
          child_origin == kid_origin(this_origin, child_size, child_index)
      IN  IF self.tag = "Parent"
          THEN LET r == TreeNode_free(self.kids[child_index + 1], child_origin,
                                      child_size, requested_origin, requested_size)
               IN  [node |-> merge_if_necessary(
                                 Parent([self.kids EXCEPT ![child_index + 1] = r.node])),
                    panic |-> r.panic]
          ELSE [node |-> self, panic |-> TRUE]

(***************************************************************************)
(* struct TextureAtlasAllocator { root: TreeNode, size: u32 }              *)
(***************************************************************************)
TextureAtlasAllocator_with_length(length) == [root |-> EmptyLeaf, size |-> length]

TextureAtlasAllocator_new == TextureAtlasAllocator_with_length(ATLAS_TEXTURE_LENGTH)

\* requested_length from the smaller component of the request.
requested_length_min(requested_size) ==
    next_power_of_two(as_u32(Min(requested_size.x, requested_size.y)))

\* requested_length as the power of two strictly above the request.
requested_length_above(requested_size) ==
    next_power_of_two(as_u32(Max(requested_size.x, requested_size.y) + 1))

\* The side length TextureAtlasAllocator::allocate asks the quadtree for.
requested_length(requested_size) ==
    next_power_of_two(as_u32(Max(requested_size.x, requested_size.y)))

\* The computation of the requested length overflows.
requested_length_overflows(requested_size) ==
    next_power_of_two_overflows(as_u32(Max(requested_size.x, requested_size.y)))

\* TextureAtlasAllocator::allocate: the allocator after the call and the
\* returned Option<RectI>.
TextureAtlasAllocator_allocate(self, requested_size) ==
    LET r == TreeNode_allocate(self.root, Vector2I_default, self.size,
                               requested_length(requested_size))
    IN  [atlas |-> [self EXCEPT !.root = r.node], rect |-> r.rect]

\* TextureAtlasAllocator::free that passes the rect's lower right corner.
TextureAtlasAllocator_free_lower_right(self, rect) ==
    LET r == TreeNode_free(self.root, Vector2I_default, self.size,
                           rect.lower_right, RectI_width(rect))
    IN  [atlas |-> [self EXCEPT !.root = r.node], panic |-> r.panic]

\* TextureAtlasAllocator::free
TextureAtlasAllocator_free(self, rect) ==
    LET r == TreeNode_free(self.root, Vector2I_default, self.size,
                           RectI_origin(rect), RectI_width(rect))
    IN  [atlas |-> [self EXCEPT !.root = r.node], panic |-> r.panic]

\* TextureAtlasAllocator::is_empty
is_empty(self) == self.root.tag = "EmptyLeaf"

(***************************************************************************)
(* struct TextureAllocator { pages: Vec<TexturePageAllocator> }            *)
(* enum TexturePageAllocator { Atlas(..), Image {..}, RenderTarget {..} }  *)
(***************************************************************************)
AtlasPage(allocator) == [kind |-> "Atlas", atlas |-> allocator]
ImagePage(size) == [kind |-> "Image", size |-> size]
RenderTargetPage(size, id) == [kind |-> "RenderTarget", size |-> size, id |-> id]

\* struct TextureLocation { page: PaintPageId, rect: RectI }
TextureLocation(page, rect) == [page |-> page, rect |-> rect]

\* TextureAllocator::new
TextureAllocator_new == <<>>

\* too_big that looks at the width only.
too_big_x_only(requested_size) == requested_size.x > ATLAS_TEXTURE_LENGTH

\* Whether TextureAllocator::allocate gives the request a page of its own.
too_big(requested_size) ==
    requested_size.x > ATLAS_TEXTURE_LENGTH \/ requested_size.y > ATLAS_TEXTURE_LENGTH

\* allocate_image that puts the new page in front of the others.
allocate_image_in_front(these_pages, requested_size) ==
    LET rect == RectI_new(Vector2I_default, requested_size)
    IN  [pages |-> <<ImagePage(RectI_size(rect))>> \o these_pages,
         location |-> Some(TextureLocation(0, rect)),
         panic |-> FALSE]

\* TextureAllocator::allocate_image
allocate_image(these_pages, requested_size) ==
    LET page == Len(these_pages)
        rect == RectI_new(Vector2I_default, requested_size)
    IN  [pages |-> Append(these_pages, ImagePage(RectI_size(rect))),
         location |-> Some(TextureLocation(page, rect)),
         panic |-> FALSE]

\* allocate_render_target that pushes an Image page.
allocate_render_target_as_image(these_pages, requested_size, id) ==
    LET page == Len(these_pages)
        rect == RectI_new(Vector2I_default, requested_size)
    IN  [pages |-> Append(these_pages, ImagePage(RectI_size(rect))),
         location |-> Some(TextureLocation(page, rect)),
         panic |-> FALSE]

\* TextureAllocator::allocate_render_target
allocate_render_target(these_pages, requested_size, id) ==
    LET page == Len(these_pages)
        rect == RectI_new(Vector2I_default, requested_size)
    IN  [pages |-> Append(these_pages, RenderTargetPage(RectI_size(rect), id)),
         location |-> Some(TextureLocation(page, rect)),
         panic |-> FALSE]

\* next_page that leaves out a page.
next_page_skip(page_index) == page_index + 2

\* The page the loop of TextureAllocator::allocate goes on with after the
\* page at page_index.
next_page(page_index) == page_index + 1

\* The loop of TextureAllocator::allocate over the existing pages, from
\* page_index on: the pages after it and the location it returned, if any.
RECURSIVE try_each_atlas(_, _, _)
try_each_atlas(these_pages, page_index, requested_size) ==
    IF page_index >= Len(these_pages)
    THEN [pages |-> these_pages, location |-> None]
    ELSE
      LET page == these_pages[page_index + 1]
      IN  IF page.kind # "Atlas"
          THEN try_each_atlas(these_pages, next_page(page_index), requested_size)
          ELSE
            LET r == TextureAtlasAllocator_allocate(page.atlas, requested_size)
                after == [these_pages EXCEPT ![page_index + 1] = AtlasPage(r.atlas)]
            IN  IF IsSome(r.rect)
                THEN [pages |-> after,
                      location |-> Some(TextureLocation(page_index, Unwrap(r.rect)))]
                ELSE try_each_atlas(after, next_page(page_index), requested_size)

\* The tail of TextureAllocator::allocate: a new atlas page for the request.
\* panic is the expect("Allocation failed!").
add_new_atlas(these_pages, requested_size) ==
    LET page == Len(these_pages)
        r == TextureAtlasAllocator_allocate(TextureAtlasAllocator_new, requested_size)
    IN  IF IsSome(r.rect)
        THEN [pages |-> Append(these_pages, AtlasPage(r.atlas)),
              location |-> Some(TextureLocation(page, Unwrap(r.rect))),
              panic |-> FALSE]
        ELSE [pages |-> these_pages, location |-> None, panic |-> TRUE]

\* TextureAllocator::allocate whose loop starts at the second page.
TextureAllocator_allocate_skip_first(these_pages, requested_size) ==
    IF too_big(requested_size)
    THEN allocate_image(these_pages, requested_size)
    ELSE
      LET t == try_each_atlas(these_pages, 1, requested_size)
      IN  IF IsSome(t.location)
          THEN [pages |-> t.pages, location |-> t.location, panic |-> FALSE]
          ELSE add_new_atlas(t.pages, requested_size)

\* TextureAllocator::allocate
TextureAllocator_allocate(these_pages, requested_size) ==
    IF too_big(requested_size)
    THEN allocate_image(these_pages, requested_size)
    ELSE
      LET t == try_each_atlas(these_pages, 0, requested_size)
      IN  IF IsSome(t.location)
          THEN [pages |-> t.pages, location |-> t.location, panic |-> FALSE]
          ELSE add_new_atlas(t.pages, requested_size)

\* TextureAllocator::page_size
page_size(these_pages, page_index) ==
    LET page == these_pages[page_index + 1]
    IN  IF page.kind = "Atlas" THEN Vector2I_splat(page.atlas.size) ELSE page.size

\* TextureAllocator::page_count
page_count(these_pages) == Len(these_pages)

\* TextureAllocator::page_render_target_id
page_render_target_id(these_pages, page_index) ==
    LET page == these_pages[page_index + 1]
    IN  IF page.kind = "RenderTarget" THEN Some(page.id) ELSE None

(***************************************************************************)
(* The calls and the inputs of the specifications.                         *)
(***************************************************************************)

NoCall == [op |-> "none", size |-> Vector2I_default, id |-> 0, result |-> None]
Call(op, size, id, result) == [op |-> op, size |-> size, id |-> id, result |-> result]

\* The sizes requested: empty, the small lengths, unequal components, a
\* length that is no power of two, the atlas length itself, and oversize in
\* either or both components.
Requests ==
    {Vector2I_new(0, 0), Vector2I_new(1, 1), Vector2I_new(2, 1), Vector2I_new(1, 3),
     Vector2I_new(ATLAS_TEXTURE_LENGTH, 1),
     Vector2I_new(ATLAS_TEXTURE_LENGTH, ATLAS_TEXTURE_LENGTH),
     Vector2I_new(ATLAS_TEXTURE_LENGTH + 1, 1),
     Vector2I_new(1, ATLAS_TEXTURE_LENGTH + 1),
     Vector2I_new(ATLAS_TEXTURE_LENGTH + 1, ATLAS_TEXTURE_LENGTH + 1)}
RenderTargetSizes == {Vector2I_new(1, 1), Vector2I_new(ATLAS_TEXTURE_LENGTH + 1, 2)}
RenderTargetIds == {0, 1}
\* The atlas lengths of the test: powers of two up to the atlas length.
Lengths == {Pow2(k) : k \in 0..AtlasLog}

(***************************************************************************)
(* Spec: a TextureAllocator and its callers.                               *)
(***************************************************************************)
Init ==
    /\ atlas_texture_length = Pow2(AtlasLog)
    /\ pages = TextureAllocator_new
    /\ requested = <<>>
    /\ tilers = <<>>
    /\ scene_builder = <<>>
    /\ previous = <<>>
    /\ stream = <<>>
    /\ returned = <<>>
    /\ calls = 0
    /\ lastCall = NoCall
    /\ atlas = TextureAtlasAllocator_new
    /\ locations = <<>>
    /\ live = {}
    /\ pc = "allocator"
    /\ failure = "none"

\* A call of TextureAllocator::allocate(requested_size).
Allocate ==
    /\ pc = "allocator" /\ failure = "none" /\ calls < MaxCalls
    /\ \E requested_size \in Requests :
         LET r == TextureAllocator_allocate(pages, requested_size)
         IN  /\ pages' = r.pages
             /\ returned' = IF IsSome(r.location)
                            THEN Append(returned, Unwrap(r.location)) ELSE returned
             /\ lastCall' = Call("allocate", requested_size, 0, r.location)
             /\ failure' = IF r.panic THEN "Allocation failed!" ELSE failure
    /\ calls' = calls + 1
    /\ UNCHANGED <<tilers, scene_builder, previous, stream, atlas_texture_length, requested, atlas, locations, live, pc>>

\* A call of TextureAllocator::allocate_render_target(requested_size, id).
AllocateRenderTarget ==
    /\ pc = "allocator" /\ failure = "none" /\ calls < MaxCalls
    /\ \E requested_size \in RenderTargetSizes, id \in RenderTargetIds :
         LET r == allocate_render_target(pages, requested_size, id)
         IN  /\ pages' = r.pages
             /\ returned' = Append(returned, Unwrap(r.location))
             /\ lastCall' = Call("allocate_render_target", requested_size, id, r.location)
    /\ calls' = calls + 1
    /\ UNCHANGED <<tilers, scene_builder, previous, stream, atlas_texture_length, requested, atlas, locations, live, pc, failure>>

Next == Allocate \/ AllocateRenderTarget

Spec == Init /\ [][Next]_vars

(***************************************************************************)
(* SpecTest: prop_allocation_and_freeing_work(length, sizes).              *)
(* The sizes are drawn one by one as the first loop consumes them; the     *)
(* second loop frees the stored locations, in the order given by the       *)
(* choice of the index.                                                    *)
(***************************************************************************)
\* The arguments quickcheck passes: any u32.
RawLengths == 0..ATLAS_TEXTURE_LENGTH
RawSides == 0..(ATLAS_TEXTURE_LENGTH + 1)

\* length = u32::next_power_of_two(length).max(1)
test_length(length) == Max(next_power_of_two(length), 1)

\* *width = (*width).min(length).max(1)
test_clamp(side, length) == Max(Min(side, length), 1)

\* The sequence without its i-th element.
RemoveAt(seq, i) == [j \in 1..(Len(seq) - 1) |-> IF j < i THEN seq[j] ELSE seq[j + 1]]

InitTest ==
    /\ atlas_texture_length = Pow2(AtlasLog)
    /\ pages = TextureAllocator_new
    /\ requested = <<>>
    /\ tilers = <<>>
    /\ scene_builder = <<>>
    /\ previous = <<>>
    /\ stream = <<>>
    /\ returned = <<>>
    /\ calls = 0
    /\ lastCall = NoCall
    /\ \E length \in RawLengths :
         atlas = TextureAtlasAllocator_with_length(test_length(length))
    /\ locations = <<>>
    /\ live = {}
    /\ pc = "allocating"
    /\ failure = "none"

\* One iteration of `for &(width, height) in &sizes`.
TestAllocate ==
    /\ pc = "allocating" /\ calls < MaxSizes
    /\ \E width \in RawSides, height \in RawSides :
         LET size == Vector2I_new(test_clamp(width, atlas.size),
                                  test_clamp(height, atlas.size))
             r == TextureAtlasAllocator_allocate(atlas, size)
         IN  /\ atlas' = r.atlas
             /\ locations' = IF IsSome(r.rect)
                             THEN Append(locations, Unwrap(r.rect)) ELSE locations
             /\ lastCall' = Call("atlas_allocate", size, 0, r.rect)
    /\ calls' = calls + 1
    /\ UNCHANGED <<tilers, scene_builder, previous, stream, atlas_texture_length, requested, pages, returned, live, pc, failure>>

\* The sizes are exhausted: the first loop ends.
TestSizesDone ==
    /\ pc = "allocating"
    /\ pc' = "freeing"
    /\ UNCHANGED <<tilers, scene_builder, previous, stream, atlas_texture_length, requested, pages, returned, calls, lastCall, atlas, locations, live, failure>>

\* One iteration of `for location in locations`.
TestFree ==
    /\ pc = "freeing" /\ failure = "none"
    /\ \E i \in 1..Len(locations) :
         LET r == TextureAtlasAllocator_free(atlas, locations[i])
         IN  /\ atlas' = r.atlas
             /\ locations' = RemoveAt(locations, i)
             /\ lastCall' = Call("atlas_free", RectI_size(locations[i]), 0,
                                 Some(locations[i]))
             /\ failure' = IF r.panic THEN "unreachable" ELSE failure
    /\ UNCHANGED <<tilers, scene_builder, previous, stream, atlas_texture_length, requested, pages, returned, calls, live, pc>>

\* assert!(allocator.is_empty())
TestAssert ==
    /\ pc = "freeing" /\ failure = "none" /\ locations = <<>>
    /\ pc' = "done"
    /\ failure' = IF is_empty(atlas) THEN failure ELSE "assertion failed"
    /\ UNCHANGED <<tilers, scene_builder, previous, stream, atlas_texture_length, requested, pages, returned, calls, lastCall, atlas, locations, live>>

NextTest == TestAllocate \/ TestSizesDone \/ TestFree \/ TestAssert

SpecTest == InitTest /\ [][NextTest]_vars

(***************************************************************************)
(* SpecAtlas: one TextureAtlasAllocator; allocate and free of a live       *)
(* location in any order.                                                  *)
(***************************************************************************)
InitAtlas ==
    /\ atlas_texture_length = Pow2(AtlasLog)
    /\ pages = TextureAllocator_new
    /\ requested = <<>>
    /\ tilers = <<>>
    /\ scene_builder = <<>>
    /\ previous = <<>>
    /\ stream = <<>>
    /\ returned = <<>>
    /\ calls = 0
    /\ lastCall = NoCall
    /\ \E length \in Lengths : atlas = TextureAtlasAllocator_with_length(length)
    /\ locations = <<>>
    /\ live = {}
    /\ pc = "atlas"
    /\ failure = "none"

\* A call of TextureAtlasAllocator::allocate(requested_size).
AtlasAllocate ==
    /\ pc = "atlas" /\ failure = "none" /\ calls < MaxLive
    /\ \E requested_size \in Requests :
         LET r == TextureAtlasAllocator_allocate(atlas, requested_size)
         IN  /\ atlas' = r.atlas
             /\ live' = IF IsSome(r.rect) THEN live \cup {Unwrap(r.rect)} ELSE live
             /\ lastCall' = Call("atlas_allocate", requested_size, 0, r.rect)
    /\ calls' = calls + 1
    /\ UNCHANGED <<tilers, scene_builder, previous, stream, atlas_texture_length, requested, pages, returned, locations, pc, failure>>

\* A call of TextureAtlasAllocator::free(rect) for a live rect.
AtlasFree ==
    /\ pc = "atlas" /\ failure = "none"
    /\ \E rect \in live :
         LET r == TextureAtlasAllocator_free(atlas, rect)
         IN  /\ atlas' = r.atlas
             /\ live' = live \ {rect}
             /\ lastCall' = Call("atlas_free", RectI_size(rect), 0, Some(rect))
             /\ failure' = IF r.panic THEN "unreachable" ELSE failure
    /\ UNCHANGED <<tilers, scene_builder, previous, stream, atlas_texture_length, requested, pages, returned, calls, locations, pc>>

NextAtlas == AtlasAllocate \/ AtlasFree

SpecAtlas == InitAtlas /\ [][NextAtlas]_vars

(***************************************************************************)
(* SpecFill: a TextureAllocator built with atlas length 4 or 8 and filled  *)
(* by a caller that requests up to MaxBig 2x2 rects and then up to         *)
(* MaxSmall 1x1 rects.                                                     *)
(***************************************************************************)
FillLengths == {4, 8}

InitFill ==
    /\ atlas_texture_length \in FillLengths
    /\ pages = TextureAllocator_new
    /\ requested = <<>>
    /\ tilers = <<>>
    /\ scene_builder = <<>>
    /\ previous = <<>>
    /\ stream = <<>>
    /\ returned = <<>>
    /\ calls = 0
    /\ lastCall = NoCall
    /\ atlas = TextureAtlasAllocator_new
    /\ locations = <<>>
    /\ live = {}
    /\ pc = "fill_big"
    /\ failure = "none"

\* A call of TextureAllocator::allocate(requested_size) by the filling caller.
FillCall(requested_size) ==
    LET r == TextureAllocator_allocate(pages, requested_size)
    IN  /\ pages' = r.pages
        /\ requested' = Append(requested, requested_size)
        /\ returned' = IF IsSome(r.location)
                       THEN Append(returned, Unwrap(r.location)) ELSE returned
        /\ lastCall' = Call("allocate", requested_size, 0, r.location)
        /\ failure' = IF r.panic THEN "Allocation failed!" ELSE failure
        /\ calls' = calls + 1
        /\ UNCHANGED <<tilers, scene_builder, previous, stream, atlas_texture_length, atlas,
                       locations, live>>

\* allocate((2, 2)), while no 1x1 rect has been requested.
FillBig ==
    /\ pc = "fill_big" /\ failure = "none" /\ calls < MaxBig
    /\ FillCall(Vector2I_splat(2))
    /\ pc' = pc

\* allocate((1, 1)).
FillSmall ==
    /\ pc \in {"fill_big", "fill_small"} /\ failure = "none"
    /\ Cardinality({i \in 1..Len(requested) : requested[i] = Vector2I_splat(1)}) < MaxSmall
    /\ FillCall(Vector2I_splat(1))
    /\ pc' = "fill_small"

NextFill == FillBig \/ FillSmall

SpecFill == InitFill /\ [][NextFill]_vars

(***************************************************************************)
(* SpecRaw: one TextureAtlasAllocator whose allocate is called with any    *)
(* Vector2I, as its signature allows: components that are negative, zero,  *)
(* within the atlas, or larger than the atlas.  The build either checks    *)
(* arithmetic overflow (pc = "raw_debug") or does not (pc = "raw_release").*)
(***************************************************************************)
RawRequests ==
    {Vector2I_new(0, 0), Vector2I_new(1, 1), Vector2I_new(3, 1),
     Vector2I_new(ATLAS_TEXTURE_LENGTH, ATLAS_TEXTURE_LENGTH),
     Vector2I_new(ATLAS_TEXTURE_LENGTH + 1, 1),
     Vector2I_new(1, I32_MAX),
     Vector2I_new(0 - 1, 2),
     Vector2I_new(0 - 1, 0 - 1),
     Vector2I_new(I32_MIN, 0 - 3),
     Vector2I_new(I32_MIN, I32_MIN)}

InitRaw ==
    /\ atlas_texture_length = Pow2(AtlasLog)
    /\ pages = TextureAllocator_new
    /\ requested = <<>>
    /\ tilers = <<>>
    /\ scene_builder = <<>>
    /\ previous = <<>>
    /\ stream = <<>>
    /\ returned = <<>>
    /\ calls = 0
    /\ lastCall = NoCall
    /\ \E length \in Lengths : atlas = TextureAtlasAllocator_with_length(length)
    /\ locations = <<>>
    /\ live = {}
    /\ pc \in {"raw_debug", "raw_release"}
    /\ failure = "none"

\* TextureAtlasAllocator::allocate(requested_size) returns.
RawAllocate ==
    /\ pc \in {"raw_debug", "raw_release"} /\ failure = "none" /\ calls < MaxRaw
    /\ \E requested_size \in RawRequests :
         /\ ~(pc = "raw_debug" /\ requested_length_overflows(requested_size))
         /\ LET r == TextureAtlasAllocator_allocate(atlas, requested_size)
            IN  /\ atlas' = r.atlas
                /\ live' = IF IsSome(r.rect) THEN live \cup {Unwrap(r.rect)} ELSE live
                /\ lastCall' = Call("atlas_allocate", requested_size, 0, r.rect)
    /\ calls' = calls + 1
    /\ UNCHANGED <<tilers, scene_builder, previous, stream, atlas_texture_length, requested, pages, returned, locations, pc, failure>>

\* TextureAtlasAllocator::allocate(requested_size) panics in next_power_of_two.
RawOverflow ==
    /\ pc = "raw_debug" /\ failure = "none" /\ calls < MaxRaw
    /\ \E requested_size \in RawRequests :
         /\ requested_length_overflows(requested_size)
         /\ lastCall' = Call("atlas_allocate", requested_size, 0, None)
    /\ failure' = "attempt to add with overflow"
    /\ calls' = calls + 1
    /\ UNCHANGED <<tilers, scene_builder, previous, stream, atlas_texture_length, requested, pages, returned, atlas, locations, live, pc>>

NextRaw == RawAllocate \/ RawOverflow

SpecRaw == InitRaw /\ [][NextRaw]_vars

(***************************************************************************)
(* The Tiler of renderer/src/tiles.rs.                                     *)
(*                                                                         *)
(* Coordinates are integers (the source's f32 pixels): the outlines tiled  *)
(* have line segments only, with endpoints chosen so that every crossing   *)
(* of a segment with a strip boundary has an integer x.  The cubic branch  *)
(* of ActiveEdge::process is therefore not reached.                        *)
(*                                                                         *)
(* What the Tiler calls outside tiles.rs (Contour, LineSegment2F, RectF,   *)
(* SortedVector, BuiltObject, the SceneBuilder's z-buffer and alpha tile   *)
(* counter) follows the description of these parts in the specification.   *)
(*                                                                         *)
(* A Tiler is a record of the struct's fields and of the locals of         *)
(* generate_tiles and process_old_active_edges; `pc` is its position:      *)
(*   "new"       constructed, generate_tiles not yet called;               *)
(*   "strip"     about to call generate_strip(strip_origin_y);             *)
(*   "in_strip"  inside generate_strip, old_active_edges being drained and *)
(*               then new edges being added;                               *)
(*   "pack"      inside pack_and_cull_if_necessary, at tile tile_index;    *)
(*   "done"      generate_tiles returned;                                  *)
(*   "panic"     a debug assertion failed in a build that checks them.     *)
(* One step handles one carried-over edge, one queued endpoint or one tile *)
(* of pack_and_cull: the steps of several Tilers interleave at this grain. *)
(***************************************************************************)
TILE_WIDTH == 16
TILE_HEIGHT == 16
MASK_TILES_ACROSS == 256

\* i32 `/`: truncates toward zero.
i32_div(a, b) == IF a >= 0 THEN a \div b ELSE 0 - ((0 - a) \div b)
\* ceil(a / b) for b > 0.
ceil_div(a, b) == 0 - ((0 - a) \div b)
\* `as i8` of an i32.
as_i8(v) == ((v + 128) % 256) - 128
\* `as u16` of an integer.
as_u16(v) == v % Pow2(16)

\* RectF as a record of two corners; RectF::intersection.
RectF_from_points(origin, lower_right) == [origin |-> origin, lower_right |-> lower_right]
RectF_intersection(a, b) ==
    IF /\ a.origin.x < b.lower_right.x /\ b.origin.x < a.lower_right.x
       /\ a.origin.y < b.lower_right.y /\ b.origin.y < a.lower_right.y
    THEN Some(RectF_from_points(
             Vector2I_new(Max(a.origin.x, b.origin.x), Max(a.origin.y, b.origin.y)),
             Vector2I_new(Min(a.lower_right.x, b.lower_right.x),
                          Min(a.lower_right.y, b.lower_right.y))))
    ELSE None

\* round_rect_out_to_tile_bounds.
round_rect_out_to_tile_bounds(rect) ==
    RectF_from_points(
        Vector2I_new(rect.origin.x \div TILE_WIDTH, rect.origin.y \div TILE_HEIGHT),
        Vector2I_new(ceil_div(rect.lower_right.x, TILE_WIDTH),
                     ceil_div(rect.lower_right.y, TILE_HEIGHT)))

\* LineSegment2F.
LineSegment2F_new(from, to) == [from |-> from, to |-> to]
upper_point(line) == IF line.from.y < line.to.y THEN line.from ELSE line.to
max_y(line) == Max(line.from.y, line.to.y)

\* LineSegment2F::split_at_y: the part above y and the part below it, each
\* keeping the direction of the line.
split_at_y(line, y) ==
    LET dy == line.to.y - line.from.y
        num == (line.to.x - line.from.x) * (y - line.from.y)
        x == line.from.x + (IF dy > 0 THEN num \div dy ELSE (0 - num) \div (0 - dy))
        point == Vector2I_new(x, y)
        before == LineSegment2F_new(line.from, point)
        after == LineSegment2F_new(point, line.to)
    IN  IF line.from.y < line.to.y
        THEN [upper |-> before, lower |-> after]
        ELSE [upper |-> after, lower |-> before]

\* LineSegment2F::solve_y_for_x, for a line that is not vertical.
solve_y_for_x(line, x) ==
    LET dx == line.to.x - line.from.x
        num == (line.to.y - line.from.y) * (x - line.from.x)
    IN  line.from.y + (IF dx > 0 THEN num \div dx ELSE (0 - num) \div (0 - dx))

\* Segment: a line, a cubic or none.  A cubic holds in `points`, in place of
\* its control points, the ends of the flat pieces that the halving loop of
\* ActiveEdge::process finds, in the direction of the segment; they descend
\* or ascend in y as the baseline does.
Segment_line(line) == [kind |-> "Line", baseline |-> line]
Segment_cubic(points) ==
    [kind |-> "Cubic", baseline |-> LineSegment2F_new(points[1], points[Len(points)]),
     points |-> points]
Segment_none ==
    [kind |-> "None", baseline |-> LineSegment2F_new(Vector2I_default, Vector2I_default)]

\* Contour: a sequence of endpoints, indexed from 0 as in the source.  An
\* endpoint with a field `curve` starts a cubic, whose pieces end at the
\* points of `curve` and at the next endpoint.
position_of(contour, index) == contour[index + 1]
next_endpoint_index_of(contour, index) == (index + 1) % Len(contour)
prev_endpoint_index_of(contour, index) == (index + Len(contour) - 1) % Len(contour)
point_is_logically_above(contour, a, b) ==
    \/ position_of(contour, a).y < position_of(contour, b).y
    \/ position_of(contour, a).y = position_of(contour, b).y /\ a < b
segment_after(contour, index) ==
    LET from == position_of(contour, index)
        to == position_of(contour, next_endpoint_index_of(contour, index))
    IN  IF "curve" \in DOMAIN from
        THEN Segment_cubic(<<Vector2I_new(from.x, from.y)>> \o from.curve
                              \o <<Vector2I_new(to.x, to.y)>>)
        ELSE Segment_line(LineSegment2F_new(Vector2I_new(from.x, from.y),
                                            Vector2I_new(to.x, to.y)))

\* Outline::bounds.
Outline_bounds(outline) ==
    LET of(point) == {Vector2I_new(point.x, point.y)}
                         \cup (IF "curve" \in DOMAIN point
                               THEN {point.curve[k] : k \in 1..Len(point.curve)} ELSE {})
        points == UNION {UNION {of(outline[c][i]) : i \in 1..Len(outline[c])} :
                            c \in 1..Len(outline)}
        least(S) == CHOOSE v \in S : \A w \in S : v <= w
        greatest(S) == CHOOSE v \in S : \A w \in S : v >= w
    IN  IF points = {} THEN RectF_from_points(Vector2I_default, Vector2I_default)
        ELSE RectF_from_points(
                 Vector2I_new(least({p.x : p \in points}), least({p.y : p \in points})),
                 Vector2I_new(greatest({p.x : p \in points}), greatest({p.y : p \in points})))

\* TileObjectPrimitive::default with backdrop 1.
TileObjectPrimitive_default_backdrop_one == [alpha_tile_index |-> Pow2(16) - 1, backdrop |-> 1]

\* TileObjectPrimitive::default and is_solid.
TileObjectPrimitive_default == [alpha_tile_index |-> Pow2(16) - 1, backdrop |-> 0]
is_solid(tile) == tile.alpha_tile_index = Pow2(16) - 1

\* BuiltObject::new: the tile map covers the bounds rounded out to tiles.
BuiltObject_new(bounds) ==
    LET rect == round_rect_out_to_tile_bounds(bounds)
        area == (rect.lower_right.x - rect.origin.x) * (rect.lower_right.y - rect.origin.y)
    IN  [bounds |-> bounds,
         fills |-> <<>>,
         tiles |-> [rect |-> rect, data |-> [i \in 1..area |-> TileObjectPrimitive_default]],
         alpha_tiles |-> <<>>]

tile_rect(built_object) == built_object.tiles.rect

\* BuiltObject::tile_coords_to_local_index and local_tile_index_to_coords.
tile_coords_to_local_index(built_object, coords) ==
    LET rect == tile_rect(built_object)
    IN  IF /\ rect.origin.x <= coords.x /\ coords.x < rect.lower_right.x
           /\ rect.origin.y <= coords.y /\ coords.y < rect.lower_right.y
        THEN Some((coords.y - rect.origin.y) * (rect.lower_right.x - rect.origin.x)
                  + (coords.x - rect.origin.x))
        ELSE None
local_tile_index_to_coords(built_object, tile_index) ==
    LET rect == tile_rect(built_object)
        width == rect.lower_right.x - rect.origin.x
    IN  Vector2I_new(rect.origin.x + (tile_index % width),
                     rect.origin.y + (tile_index \div width))

\* SceneBuilder: the z-buffer, one entry per tile of the view box (-1: no
\* object yet), and the alpha tile counter.
SceneBuilder_new(view_box, depth, next_alpha_tile_index) ==
    LET rect == round_rect_out_to_tile_bounds(view_box)
    IN  [z_buffer |-> [coords \in {Vector2I_new(x, y) :
                                      x \in rect.origin.x..(rect.lower_right.x - 1),
                                      y \in rect.origin.y..(rect.lower_right.y - 1)} |-> depth],
         next_alpha_tile_index |-> next_alpha_tile_index]

\* ZBuffer::update: an atomic compare-and-set that keeps the maximum.
z_buffer_update(builder, coords, object_index) ==
    [builder EXCEPT !.z_buffer[coords] = Max(@, object_index)]

\* BuiltObject::add_fill on s = [built_object, builder]: a fill of a tile
\* outside the tile map is dropped; the tile's alpha tile index is the one
\* it has or, when it is solid, the next value of the builder's counter.
\* A fill holds its endpoints relative to its tile; tile_coords is kept to
\* state properties and is no field of FillBatchPrimitive.
add_fill(s, from, to, tile_coords) ==
    LET index == tile_coords_to_local_index(s.built_object, tile_coords)
        tile == s.built_object.tiles.data[Unwrap(index) + 1]
        allocate == is_solid(tile)
        alpha_tile_index ==
            IF allocate THEN as_u16(s.builder.next_alpha_tile_index) ELSE tile.alpha_tile_index
        upper_left == Vector2I_new(tile_coords.x * TILE_WIDTH, tile_coords.y * TILE_HEIGHT)
        fill == [from |-> Vector2I_new(from.x - upper_left.x, from.y - upper_left.y),
                 to |-> Vector2I_new(to.x - upper_left.x, to.y - upper_left.y),
                 alpha_tile_index |-> alpha_tile_index,
                 tile_coords |-> tile_coords]
    IN  IF ~IsSome(index) THEN s
        ELSE [built_object |->
                 [s.built_object EXCEPT
                     !.fills = Append(@, fill),
                     !.tiles.data[Unwrap(index) + 1].alpha_tile_index = alpha_tile_index],
              builder |->
                 IF allocate
                 THEN [s.builder EXCEPT !.next_alpha_tile_index = @ + 1]
                 ELSE s.builder]

\* BuiltObject::add_active_fill: a horizontal fill along the top of the tile
\* from left to right, directed by the sign of the winding; none for 0.
add_active_fill(s, left, right, winding, tile_coords) ==
    LET y == tile_coords.y * TILE_HEIGHT
    IN  IF winding = 0 THEN s
        ELSE IF winding < 0
        THEN add_fill(s, Vector2I_new(left, y), Vector2I_new(right, y), tile_coords)
        ELSE add_fill(s, Vector2I_new(right, y), Vector2I_new(left, y), tile_coords)

\* BuiltObject::generate_fill_primitives_for_line: one fill for each tile
\* column the line crosses, left to right, the line being cut at the
\* vertical tile boundaries.
RECURSIVE fill_tiles(_, _, _, _, _)
fill_tiles(s, line, tile_x, tile_right, tile_y) ==
    IF tile_x >= tile_right THEN s
    ELSE LET clip(point) ==
                 IF point.x < tile_x * TILE_WIDTH
                 THEN Vector2I_new(tile_x * TILE_WIDTH, solve_y_for_x(line, tile_x * TILE_WIDTH))
                 ELSE IF point.x > (tile_x + 1) * TILE_WIDTH
                 THEN Vector2I_new((tile_x + 1) * TILE_WIDTH,
                                   solve_y_for_x(line, (tile_x + 1) * TILE_WIDTH))
                 ELSE point
         IN  Only({fill_tiles(filled, line, tile_x + 1, tile_right, tile_y) :
                   filled \in {add_fill(s, clip(line.from), clip(line.to),
                                        Vector2I_new(tile_x, tile_y))}})

generate_fill_primitives_for_line(s, line, tile_y) ==
    fill_tiles(s, line,
               Min(line.from.x, line.to.x) \div TILE_WIDTH,
               ceil_div(Max(line.from.x, line.to.x), TILE_WIDTH),
               tile_y)

\* ActiveEdge::from_segment.
ActiveEdge_from_segment(segment) ==
    [segment |-> segment,
     crossing |-> IF segment.baseline.from.y < segment.baseline.to.y
                  THEN segment.baseline.from ELSE segment.baseline.to]

\* ActiveEdge::process_line_segment that leaves `crossing` as it was.
process_line_segment_stale_crossing(edge, s, line_segment, tile_y) ==
    LET tile_bottom == (tile_y + 1) * TILE_HEIGHT
        parts == split_at_y(line_segment, tile_bottom)
    IN  IF max_y(line_segment) <= tile_bottom
        THEN [edge |-> edge,
              s |-> generate_fill_primitives_for_line(s, line_segment, tile_y),
              lower_part |-> None]
        ELSE [edge |-> edge,
              s |-> generate_fill_primitives_for_line(s, parts.upper, tile_y),
              lower_part |-> Some(parts.lower)]

\* ActiveEdge::process_line_segment: the edge, s = [built_object, builder]
\* and the returned Option<LineSegment2F>.
process_line_segment(edge, s, line_segment, tile_y) ==
    LET tile_bottom == (tile_y + 1) * TILE_HEIGHT
        parts == split_at_y(line_segment, tile_bottom)
    IN  IF max_y(line_segment) <= tile_bottom
        THEN [edge |-> edge,
              s |-> generate_fill_primitives_for_line(s, line_segment, tile_y),
              lower_part |-> None]
        ELSE [edge |-> [edge EXCEPT !.crossing = upper_point(parts.lower)],
              s |-> generate_fill_primitives_for_line(s, parts.upper, tile_y),
              lower_part |-> Some(parts.lower)]

\* ActiveEdge::process on the lines that `points` joins, taken from the upper
\* end: the edge and s afterwards.  Each line goes to process_line_segment.
\* A line that ends in the strip is consumed and the next one follows; a line
\* that crosses the bottom of the strip ends the call and leaves as the
\* segment the cubic of the points after that line or, when it is the last
\* line (split_t == 1.0, and the baseline of a line segment), its lower part.
RECURSIVE process_lines(_, _, _, _)
process_lines(edge, s, points, tile_y) ==
    Only({ IF Len(points) = 2
           THEN [edge |-> [r.edge EXCEPT !.segment =
                              IF IsSome(r.lower_part)
                              THEN Segment_line(Unwrap(r.lower_part))
                              ELSE Segment_none],
                 s |-> r.s]
           ELSE IF IsSome(r.lower_part)
           THEN [edge |-> [r.edge EXCEPT !.segment = Segment_cubic(after)], s |-> r.s]
           ELSE process_lines(r.edge, r.s, after, tile_y)
           : r \in {process_line_segment(
                        edge, s,
                        IF points[1].y < points[Len(points)].y
                        THEN LineSegment2F_new(points[1], points[2])
                        ELSE LineSegment2F_new(points[Len(points) - 1], points[Len(points)]),
                        tile_y)},
             after \in {IF points[1].y < points[Len(points)].y
                        THEN SubSeq(points, 2, Len(points))
                        ELSE SubSeq(points, 1, Len(points) - 1)} })

\* ActiveEdge::process that leaves a cubic where a line is left.
ActiveEdge_process_leaves_cubic(edge, s, tile_y) ==
    Only({ IF r.edge.segment.kind = "Line"
           THEN [r EXCEPT !.edge.segment =
                    Segment_cubic(<<r.edge.segment.baseline.from, r.edge.segment.baseline.to>>)]
           ELSE r
           : r \in {process_lines(
                        edge, s,
                        IF edge.segment.kind = "Line"
                        THEN <<edge.segment.baseline.from, edge.segment.baseline.to>>
                        ELSE edge.segment.points,
                        tile_y)} })

\* ActiveEdge::process: the edge and s afterwards.  A line segment is its
\* baseline.  A cubic is the lines between its points, and when the crossing
\* lies above it, the line from the crossing to its upper point comes first
\* ("If necessary, draw initial line"), in the direction of the segment; if
\* that line crosses the bottom of the strip the segment stays as it is.
ActiveEdge_process(edge, s, tile_y) ==
    process_lines(
        edge, s,
        IF edge.segment.kind = "Line"
        THEN <<edge.segment.baseline.from, edge.segment.baseline.to>>
        ELSE IF edge.crossing.y >= Min(edge.segment.baseline.from.y, edge.segment.baseline.to.y)
        THEN edge.segment.points
        ELSE IF edge.segment.baseline.from.y < edge.segment.baseline.to.y
        THEN <<edge.crossing>> \o edge.segment.points
        ELSE edge.segment.points \o <<edge.crossing>>,
        tile_y)

\* PartialOrd for ActiveEdge: by crossing.x.
ActiveEdge_le(a, b) == a.crossing.x <= b.crossing.x

\* QueuedEndpoint_le with the comparison not reversed.
QueuedEndpoint_le_not_reversed(a, b) ==
    \/ a.y < b.y
    \/ a.y = b.y /\ a.point_index.contour < b.point_index.contour
    \/ /\ a.y = b.y /\ a.point_index.contour = b.point_index.contour
       /\ a.point_index.point <= b.point_index.point

\* PartialOrd for QueuedEndpoint: by (y, point_index), reversed.
QueuedEndpoint_le(a, b) ==
    \/ b.y < a.y
    \/ b.y = a.y /\ b.point_index.contour < a.point_index.contour
    \/ /\ b.y = a.y /\ b.point_index.contour = a.point_index.contour
       /\ b.point_index.point <= a.point_index.point

\* SortedVector::push: the value goes behind the last element that is not
\* greater than it.
InsertAt(array, k, value) ==
    SubSeq(array, 1, k) \o <<value>> \o SubSeq(array, k + 1, Len(array))
Last(S) == IF S = {} THEN 0 ELSE CHOOSE i \in S : \A j \in S : j <= i

\* SortedVector::push that appends, as Vec::push does.
push_active_edge_at_end(array, edge) == Append(array, edge)

push_active_edge(array, edge) ==
    InsertAt(array, Last({i \in 1..Len(array) : ActiveEdge_le(array[i], edge)}), edge)
push_queued_endpoint(array, endpoint) ==
    InsertAt(array, Last({i \in 1..Len(array) : QueuedEndpoint_le(array[i], endpoint)}),
             endpoint)

QueuedEndpoint(contour_index, contour, point) ==
    [point_index |-> [contour |-> contour_index, point |-> point],
     y |-> position_of(contour, point).y]

\* The sources of the fills a step has added to the BuiltObject.
fill_sources_of(before, after, source) ==
    [i \in 1..(Len(after.fills) - Len(before.fills)) |-> source]

\* Tiler::new.  Five fields are kept to state properties and are no fields
\* of the Tiler: started_at, the builder's alpha tile counter at that time;
\* crossed, the x-intercept, winding and tile column of each carried-over edge
\* process_old_active_edges has handled in the current strip; popped, the
\* endpoints add_new_active_edge has popped, in order; activated, the
\* segments (contour and index of the endpoint they start at) for which
\* add_new_active_edge has called process_active_segment; and fill_sources,
\* which holds for every fill of the BuiltObject, in order, the strip that
\* was processed when it was emitted, the x-intercept of the edge that was
\* handled (for an edge activated in the strip, the position of the popped
\* endpoint, where the edge starts) and whether that edge was carried over.
Tiler_new(builder, outline, view_box, id, paint_metadata, debug_assertions) ==
    LET bounds == RectF_intersection(Outline_bounds(outline), view_box)
    IN  [started_at |-> builder.next_alpha_tile_index,
         crossed |-> <<>>,
         popped |-> <<>>,
         activated |-> <<>>,
         fill_sources |-> <<>>,
         outline |-> outline,
         view_box |-> view_box,
         id |-> id,
         paint_metadata |-> paint_metadata,
         built_object |-> BuiltObject_new(
             IF IsSome(bounds) THEN Unwrap(bounds)
             ELSE RectF_from_points(Vector2I_default, Vector2I_default)),
         point_queue |-> <<>>,
         active_edges |-> <<>>,
         old_active_edges |-> <<>>,
         debug_assertions |-> debug_assertions,
         pc |-> "new",
         strip_origin_y |-> 0,
         current_tile_x |-> 0,
         current_subtile_x |-> 0,
         current_winding |-> 0,
         last_segment_x |-> 0,
         tile_index |-> 0]

\* Tiler::init_point_queue: the queue after the endpoints from `point` on of
\* the contours from contour_index on have been visited.
RECURSIVE init_point_queue_from(_, _, _, _)
init_point_queue_from(point_queue, outline, contour_index, point) ==
    IF contour_index >= Len(outline) THEN point_queue
    ELSE LET contour == outline[contour_index + 1]
             prev == prev_endpoint_index_of(contour, point)
             next == next_endpoint_index_of(contour, point)
             pushed == IF /\ point_is_logically_above(contour, point, prev)
                          /\ point_is_logically_above(contour, point, next)
                       THEN push_queued_endpoint(
                                point_queue, QueuedEndpoint(contour_index, contour, point))
                       ELSE point_queue
         IN  IF point >= next
             THEN init_point_queue_from(pushed, outline, contour_index + 1, 0)
             ELSE init_point_queue_from(pushed, outline, contour_index, next)

\* init_point_queue that starts at the second contour.
init_point_queue_after_first_contour(outline) == init_point_queue_from(<<>>, outline, 1, 0)

init_point_queue(outline) == init_point_queue_from(<<>>, outline, 0, 0)

\* The position after the loop over the strips of generate_tiles:
\* pack_and_cull_if_necessary returns at once unless the path is a draw path
\* with paint metadata, and its loop has nothing to do without tiles.
after_strips(tiler) ==
    IF /\ tiler.id.kind = "Draw" /\ IsSome(tiler.paint_metadata)
       /\ Len(tiler.built_object.tiles.data) > 0
    THEN [tiler EXCEPT !.pc = "pack", !.tile_index = 0]
    ELSE [tiler EXCEPT !.pc = "done"]

\* generate_tiles up to its first strip.
generate_tiles(tiler) ==
    LET rect == tile_rect(tiler.built_object)
        started == [tiler EXCEPT !.point_queue = init_point_queue(tiler.outline),
                                 !.active_edges = <<>>,
                                 !.old_active_edges = <<>>,
                                 !.strip_origin_y = rect.origin.y]
    IN  IF rect.origin.y < rect.lower_right.y
        THEN [started EXCEPT !.pc = "strip"]
        ELSE after_strips(started)

\* process_old_active_edges before its loop: the locals, and the swap of
\* active_edges into old_active_edges.
start_strip(tiler) ==
    [tiler EXCEPT !.current_tile_x = tile_rect(tiler.built_object).origin.x,
                  !.current_subtile_x = 0,
                  !.current_winding = 0,
                  !.last_segment_x = 0 - 9999,
                  !.crossed = <<>>,
                  !.old_active_edges = tiler.active_edges,
                  !.active_edges = tiler.old_active_edges,
                  !.pc = "in_strip"]

\* emit_backdrops that also writes the tile of the edge itself.
RECURSIVE emit_backdrops_through(_, _, _, _, _)
emit_backdrops_through(built_object, current_tile_x, segment_tile_x, tile_y, current_winding) ==
    IF current_tile_x > segment_tile_x THEN built_object
    ELSE LET index == tile_coords_to_local_index(built_object,
                                                 Vector2I_new(current_tile_x, tile_y))
         IN  emit_backdrops_through(
                 IF IsSome(index)
                 THEN [built_object EXCEPT
                          !.tiles.data[Unwrap(index) + 1].backdrop = as_i8(current_winding)]
                 ELSE built_object,
                 current_tile_x + 1, segment_tile_x, tile_y, current_winding)

\* The backdrops of the tiles current_tile_x .. segment_tile_x - 1 of the
\* strip set to current_winding as i8, where the tile map has the tile.
RECURSIVE emit_backdrops(_, _, _, _, _)
emit_backdrops(built_object, current_tile_x, segment_tile_x, tile_y, current_winding) ==
    IF current_tile_x >= segment_tile_x THEN built_object
    ELSE LET index == tile_coords_to_local_index(built_object,
                                                 Vector2I_new(current_tile_x, tile_y))
         IN  emit_backdrops(
                 IF IsSome(index)
                 THEN [built_object EXCEPT
                          !.tiles.data[Unwrap(index) + 1].backdrop = as_i8(current_winding)]
                 ELSE built_object,
                 current_tile_x + 1, segment_tile_x, tile_y, current_winding)

\* One iteration of the loop of process_old_active_edges, for the first edge
\* of old_active_edges: [tiler, builder] afterwards.  A failed debug
\* assertion stops a Tiler built with debug assertions.
process_old_active_edge(tiler, builder) ==
    LET active_edge == Head(tiler.old_active_edges)
        tile_y == tiler.strip_origin_y
        segment_x == active_edge.crossing.x
        edge_winding == IF active_edge.segment.baseline.from.y < active_edge.segment.baseline.to.y
                        THEN 1 ELSE 0 - 1
        segment_tile_x == i32_div(segment_x, TILE_WIDTH)
        \* Do initial subtile fill, if necessary.
        initial == tiler.current_tile_x < segment_tile_x /\ tiler.current_subtile_x > 0
        s1 == IF initial
              THEN add_active_fill([built_object |-> tiler.built_object, builder |-> builder],
                                   tiler.current_tile_x * TILE_WIDTH + tiler.current_subtile_x,
                                   (tiler.current_tile_x + 1) * TILE_WIDTH,
                                   tiler.current_winding,
                                   Vector2I_new(tiler.current_tile_x, tile_y))
              ELSE [built_object |-> tiler.built_object, builder |-> builder]
        tile_x1 == IF initial THEN tiler.current_tile_x + 1 ELSE tiler.current_tile_x
        subtile_x1 == IF initial THEN 0 ELSE tiler.current_subtile_x
        \* Move over to the correct tile, filling in as we go.
        built2 == emit_backdrops(s1.built_object, tile_x1, segment_tile_x, tile_y,
                                 tiler.current_winding)
        tile_x2 == Max(tile_x1, segment_tile_x)
        subtile_x2 == IF tile_x1 < segment_tile_x THEN 0 ELSE subtile_x1
        \* Do final subtile fill, if necessary.
        segment_subtile_x == segment_x - tile_x2 * TILE_WIDTH
        final == segment_subtile_x > subtile_x2
        s3 == IF final
              THEN add_active_fill([built_object |-> built2, builder |-> s1.builder],
                                   tile_x2 * TILE_WIDTH + subtile_x2,
                                   segment_x,
                                   tiler.current_winding,
                                   Vector2I_new(tile_x2, tile_y))
              ELSE [built_object |-> built2, builder |-> s1.builder]
        subtile_x3 == IF final THEN segment_subtile_x ELSE subtile_x2
        \* Process the edge.
        processed == ActiveEdge_process(active_edge, s3, tile_y)
        assertions == /\ segment_x >= tiler.last_segment_x
                      /\ tile_x2 = segment_tile_x
                      /\ active_edge.crossing.y = tile_y * TILE_HEIGHT
    IN  IF tiler.debug_assertions /\ ~assertions
        THEN [tiler |-> [tiler EXCEPT !.pc = "panic"], builder |-> builder]
        ELSE [tiler |->
                 [tiler EXCEPT
                     !.old_active_edges = Tail(@),
                     !.last_segment_x = segment_x,
                     !.crossed = Append(@, [x |-> segment_x, winding |-> edge_winding,
                                            segment_tile_x |-> segment_tile_x]),
                     !.current_tile_x = tile_x2,
                     !.current_subtile_x = subtile_x3,
                     !.current_winding = @ + edge_winding,
                     !.built_object = processed.s.built_object,
                     !.fill_sources =
                         @ \o fill_sources_of(tiler.built_object, processed.s.built_object,
                                              [strip |-> tile_y, x |-> segment_x,
                                               y |-> tile_y * TILE_HEIGHT,
                                               carried |-> TRUE]),
                     !.active_edges = IF processed.edge.segment.kind # "None"
                                      THEN push_active_edge(@, processed.edge)
                                      ELSE @],
              builder |-> processed.s.builder]

\* process_active_segment that drops the edges that were active when it
\* pushes the new one.
process_active_segment_single(contour, from_endpoint_index, q, tile_y) ==
    LET processed == ActiveEdge_process(
                         ActiveEdge_from_segment(segment_after(contour, from_endpoint_index)),
                         q.s, tile_y)
    IN  [active_edges |-> IF processed.edge.segment.kind # "None"
                          THEN <<processed.edge>>
                          ELSE q.active_edges,
         s |-> processed.s]

\* process_active_segment on q = [active_edges, s].
process_active_segment(contour, from_endpoint_index, q, tile_y) ==
    LET processed == ActiveEdge_process(
                         ActiveEdge_from_segment(segment_after(contour, from_endpoint_index)),
                         q.s, tile_y)
    IN  [active_edges |-> IF processed.edge.segment.kind # "None"
                          THEN push_active_edge(q.active_edges, processed.edge)
                          ELSE q.active_edges,
         s |-> processed.s]

\* add_new_active_edge that activates the segment after the popped endpoint
\* whether or not the endpoint is its upper end.
add_new_active_edge_any_next(tiler, builder) ==
    LET tile_y == tiler.strip_origin_y
        point_index == tiler.point_queue[Len(tiler.point_queue)].point_index
        popped == SubSeq(tiler.point_queue, 1, Len(tiler.point_queue) - 1)
        contour == tiler.outline[point_index.contour + 1]
        prev_endpoint_index == prev_endpoint_index_of(contour, point_index.point)
        next_endpoint_index == next_endpoint_index_of(contour, point_index.point)
        above_prev == point_is_logically_above(contour, point_index.point, prev_endpoint_index)
        above_next == TRUE
        q0 == [active_edges |-> tiler.active_edges,
               s |-> [built_object |-> tiler.built_object, builder |-> builder]]
        q1 == IF above_prev
              THEN process_active_segment(contour, prev_endpoint_index, q0, tile_y)
              ELSE q0
        queue1 == IF above_prev
                  THEN push_queued_endpoint(
                           popped,
                           QueuedEndpoint(point_index.contour, contour, prev_endpoint_index))
                  ELSE popped
        q2 == IF above_next
              THEN process_active_segment(contour, point_index.point, q1, tile_y)
              ELSE q1
        queue2 == IF above_next
                  THEN push_queued_endpoint(
                           queue1,
                           QueuedEndpoint(point_index.contour, contour, next_endpoint_index))
                  ELSE queue1
    IN  [tiler |-> [tiler EXCEPT !.point_queue = queue2,
                                 !.active_edges = q2.active_edges,
                                 !.built_object = q2.s.built_object,
                                 !.popped = Append(@, tiler.point_queue[Len(tiler.point_queue)]),
                                 !.activated =
                                     @ \o (IF above_prev
                                           THEN <<[contour |-> point_index.contour,
                                                   from |-> prev_endpoint_index]>>
                                           ELSE <<>>)
                                       \o (IF above_next
                                           THEN <<[contour |-> point_index.contour,
                                                   from |-> point_index.point]>>
                                           ELSE <<>>),
                                 !.fill_sources =
                                     @ \o fill_sources_of(
                                              tiler.built_object, q2.s.built_object,
                                              [strip |-> tile_y,
                                               x |-> position_of(contour, point_index.point).x,
                                               y |-> position_of(contour, point_index.point).y,
                                               carried |-> FALSE])],
         builder |-> q2.s.builder]

\* add_new_active_edge: [tiler, builder] afterwards.
add_new_active_edge(tiler, builder) ==
    LET tile_y == tiler.strip_origin_y
        point_index == tiler.point_queue[Len(tiler.point_queue)].point_index
        popped == SubSeq(tiler.point_queue, 1, Len(tiler.point_queue) - 1)
        contour == tiler.outline[point_index.contour + 1]
        prev_endpoint_index == prev_endpoint_index_of(contour, point_index.point)
        next_endpoint_index == next_endpoint_index_of(contour, point_index.point)
        above_prev == point_is_logically_above(contour, point_index.point, prev_endpoint_index)
        above_next == point_is_logically_above(contour, point_index.point, next_endpoint_index)
        q0 == [active_edges |-> tiler.active_edges,
               s |-> [built_object |-> tiler.built_object, builder |-> builder]]
        q1 == IF above_prev
              THEN process_active_segment(contour, prev_endpoint_index, q0, tile_y)
              ELSE q0
        queue1 == IF above_prev
                  THEN push_queued_endpoint(
                           popped,
                           QueuedEndpoint(point_index.contour, contour, prev_endpoint_index))
                  ELSE popped
        q2 == IF above_next
              THEN process_active_segment(contour, point_index.point, q1, tile_y)
              ELSE q1
        queue2 == IF above_next
                  THEN push_queued_endpoint(
                           queue1,
                           QueuedEndpoint(point_index.contour, contour, next_endpoint_index))
                  ELSE queue1
    IN  [tiler |-> [tiler EXCEPT !.point_queue = queue2,
                                 !.active_edges = q2.active_edges,
                                 !.built_object = q2.s.built_object,
                                 !.popped = Append(@, tiler.point_queue[Len(tiler.point_queue)]),
                                 !.activated =
                                     @ \o (IF above_prev
                                           THEN <<[contour |-> point_index.contour,
                                                   from |-> prev_endpoint_index]>>
                                           ELSE <<>>)
                                       \o (IF above_next
                                           THEN <<[contour |-> point_index.contour,
                                                   from |-> point_index.point]>>
                                           ELSE <<>>),
                                 !.fill_sources =
                                     @ \o fill_sources_of(
                                              tiler.built_object, q2.s.built_object,
                                              [strip |-> tile_y,
                                               x |-> position_of(contour, point_index.point).x,
                                               y |-> position_of(contour, point_index.point).y,
                                               carried |-> FALSE])],
         builder |-> q2.s.builder]

\* has_endpoint_for_strip that leaves the endpoints on the bottom boundary of
\* the strip to the next strip.
has_endpoint_for_strip_above_boundary(tiler) ==
    /\ tiler.point_queue # <<>>
    /\ tiler.point_queue[Len(tiler.point_queue)].y < (tiler.strip_origin_y + 1) * TILE_HEIGHT

\* The test of the loop of generate_strip: an endpoint is queued that does
\* not belong to a later strip.
has_endpoint_for_strip(tiler) ==
    /\ tiler.point_queue # <<>>
    /\ tiler.point_queue[Len(tiler.point_queue)].y <= (tiler.strip_origin_y + 1) * TILE_HEIGHT

\* The end of generate_strip: the next strip, or pack_and_cull_if_necessary.
end_strip(tiler) ==
    IF tiler.strip_origin_y + 1 < tile_rect(tiler.built_object).lower_right.y
    THEN [tiler EXCEPT !.strip_origin_y = @ + 1, !.pc = "strip"]
    ELSE after_strips([tiler EXCEPT !.strip_origin_y = @ + 1])

\* AlphaTileVertex::new; the colour coordinates, which the paint metadata
\* computes from the tile position alone, are left out.
AlphaTileVertex_new(tile_origin, tile_index, tile_offset, object_index, backdrop) ==
    [tile_x |-> tile_origin.x + tile_offset.x,
     tile_y |-> tile_origin.y + tile_offset.y,
     mask_u |-> as_u16((((tile_index % MASK_TILES_ACROSS) + tile_offset.x) * (Pow2(16) - 1))
                       \div MASK_TILES_ACROSS),
     mask_v |-> as_u16((((tile_index \div MASK_TILES_ACROSS) + tile_offset.y) * (Pow2(16) - 1))
                       \div MASK_TILES_ACROSS),
     object_index |-> object_index,
     backdrop |-> backdrop]

\* pack_and_cull_tile that does not skip the blank tiles.
pack_and_cull_tile_any_backdrop(tiler, builder) ==
    LET object_index == as_u16(tiler.id.index)
        paint_metadata == Unwrap(tiler.paint_metadata)
        tile == tiler.built_object.tiles.data[tiler.tile_index + 1]
        tile_coords == local_tile_index_to_coords(tiler.built_object, tiler.tile_index)
        vertex(tile_offset) ==
            AlphaTileVertex_new(tile_coords, tile.alpha_tile_index, tile_offset,
                                object_index, tile.backdrop)
        alpha_tile == [upper_left |-> vertex(Vector2I_default),
                       upper_right |-> vertex(Vector2I_new(1, 0)),
                       lower_left |-> vertex(Vector2I_new(0, 1)),
                       lower_right |-> vertex(Vector2I_splat(1))]
        next == IF tiler.tile_index + 1 < Len(tiler.built_object.tiles.data)
                THEN [tiler EXCEPT !.tile_index = @ + 1]
                ELSE [tiler EXCEPT !.tile_index = @ + 1, !.pc = "done"]
    IN  IF FALSE
        THEN [tiler |-> next, builder |-> builder]
        ELSE IF is_solid(tile) /\ paint_metadata.is_opaque
        THEN [tiler |-> next, builder |-> z_buffer_update(builder, tile_coords, object_index)]
        ELSE [tiler |-> [next EXCEPT !.built_object.alpha_tiles = Append(@, alpha_tile)],
              builder |-> builder]

\* pack_and_cull_tile that goes on to emit the AlphaTile of an occluding tile.
pack_and_cull_tile_no_continue(tiler, builder) ==
    LET object_index == as_u16(tiler.id.index)
        paint_metadata == Unwrap(tiler.paint_metadata)
        tile == tiler.built_object.tiles.data[tiler.tile_index + 1]
        tile_coords == local_tile_index_to_coords(tiler.built_object, tiler.tile_index)
        vertex(tile_offset) ==
            AlphaTileVertex_new(tile_coords, tile.alpha_tile_index, tile_offset,
                                object_index, tile.backdrop)
        alpha_tile == [upper_left |-> vertex(Vector2I_default),
                       upper_right |-> vertex(Vector2I_new(1, 0)),
                       lower_left |-> vertex(Vector2I_new(0, 1)),
                       lower_right |-> vertex(Vector2I_splat(1))]
        next == IF tiler.tile_index + 1 < Len(tiler.built_object.tiles.data)
                THEN [tiler EXCEPT !.tile_index = @ + 1]
                ELSE [tiler EXCEPT !.tile_index = @ + 1, !.pc = "done"]
    IN  IF is_solid(tile) /\ tile.backdrop = 0
        THEN [tiler |-> next, builder |-> builder]
        ELSE IF is_solid(tile) /\ paint_metadata.is_opaque
        THEN [tiler |-> [next EXCEPT !.built_object.alpha_tiles = Append(@, alpha_tile)],
              builder |-> z_buffer_update(builder, tile_coords, object_index)]
        ELSE [tiler |-> [next EXCEPT !.built_object.alpha_tiles = Append(@, alpha_tile)],
              builder |-> builder]

\* pack_and_cull_tile that drops the AlphaTile of a tile the z-buffer hides.
pack_and_cull_tile_culls_occluded(tiler, builder) ==
    LET object_index == as_u16(tiler.id.index)
        paint_metadata == Unwrap(tiler.paint_metadata)
        tile == tiler.built_object.tiles.data[tiler.tile_index + 1]
        tile_coords == local_tile_index_to_coords(tiler.built_object, tiler.tile_index)
        vertex(tile_offset) ==
            AlphaTileVertex_new(tile_coords, tile.alpha_tile_index, tile_offset,
                                object_index, tile.backdrop)
        alpha_tile == [upper_left |-> vertex(Vector2I_default),
                       upper_right |-> vertex(Vector2I_new(1, 0)),
                       lower_left |-> vertex(Vector2I_new(0, 1)),
                       lower_right |-> vertex(Vector2I_splat(1))]
        next == IF tiler.tile_index + 1 < Len(tiler.built_object.tiles.data)
                THEN [tiler EXCEPT !.tile_index = @ + 1]
                ELSE [tiler EXCEPT !.tile_index = @ + 1, !.pc = "done"]
    IN  IF is_solid(tile) /\ tile.backdrop = 0
        THEN [tiler |-> next, builder |-> builder]
        ELSE IF is_solid(tile) /\ paint_metadata.is_opaque
        THEN [tiler |-> next, builder |-> z_buffer_update(builder, tile_coords, object_index)]
        ELSE IF builder.z_buffer[tile_coords] > object_index
        THEN [tiler |-> next, builder |-> builder]
        ELSE [tiler |-> [next EXCEPT !.built_object.alpha_tiles = Append(@, alpha_tile)],
              builder |-> builder]

\* One iteration of the loop of pack_and_cull_if_necessary, for the tile at
\* tile_index: [tiler, builder] afterwards.
pack_and_cull_tile(tiler, builder) ==
    LET object_index == as_u16(tiler.id.index)
        paint_metadata == Unwrap(tiler.paint_metadata)
        tile == tiler.built_object.tiles.data[tiler.tile_index + 1]
        tile_coords == local_tile_index_to_coords(tiler.built_object, tiler.tile_index)
        vertex(tile_offset) ==
            AlphaTileVertex_new(tile_coords, tile.alpha_tile_index, tile_offset,
                                object_index, tile.backdrop)
        alpha_tile == [upper_left |-> vertex(Vector2I_default),
                       upper_right |-> vertex(Vector2I_new(1, 0)),
                       lower_left |-> vertex(Vector2I_new(0, 1)),
                       lower_right |-> vertex(Vector2I_splat(1))]
        next == IF tiler.tile_index + 1 < Len(tiler.built_object.tiles.data)
                THEN [tiler EXCEPT !.tile_index = @ + 1]
                ELSE [tiler EXCEPT !.tile_index = @ + 1, !.pc = "done"]
    IN  IF is_solid(tile) /\ tile.backdrop = 0
        THEN [tiler |-> next, builder |-> builder]
        ELSE IF is_solid(tile) /\ paint_metadata.is_opaque
        THEN [tiler |-> next, builder |-> z_buffer_update(builder, tile_coords, object_index)]
        ELSE [tiler |-> [next EXCEPT !.built_object.alpha_tiles = Append(@, alpha_tile)],
              builder |-> builder]

\* One step of generate_tiles, by the position of the Tiler: [tiler,
\* builder] afterwards.
tiler_step(tiler, builder) ==
    CASE tiler.pc = "new" -> [tiler |-> generate_tiles(tiler), builder |-> builder]
      [] tiler.pc = "strip" -> [tiler |-> start_strip(tiler), builder |-> builder]
      [] tiler.pc = "in_strip" /\ tiler.old_active_edges # <<>> ->
             process_old_active_edge(tiler, builder)
      [] tiler.pc = "in_strip" /\ tiler.old_active_edges = <<>>
                               /\ has_endpoint_for_strip(tiler) ->
             add_new_active_edge(tiler, builder)
      [] tiler.pc = "in_strip" /\ tiler.old_active_edges = <<>>
                               /\ ~has_endpoint_for_strip(tiler) ->
             [tiler |-> end_strip(tiler), builder |-> builder]
      [] tiler.pc = "pack" -> pack_and_cull_tile(tiler, builder)

\* generate_tiles run to its end with no other Tiler at work: the Tiler
\* afterwards.
RECURSIVE tile_alone(_, _)
tile_alone(tiler, builder) ==
    IF tiler.pc \in {"done", "panic"} THEN tiler
    ELSE Only({tile_alone(r.tiler, r.builder) : r \in {tiler_step(tiler, builder)}})

(***************************************************************************)
(* The paths tiled.  All outline coordinates are pixels; the view box is   *)
(* four tiles wide and four strips high.                                   *)
(***************************************************************************)
VIEW_BOX == RectF_from_points(Vector2I_default, Vector2I_new(4 * TILE_WIDTH, 4 * TILE_HEIGHT))

Contour_new(xs, ys) == [i \in 1..Len(xs) |-> Vector2I_new(xs[i], ys[i])]

\* A rectangle three tiles wide that spans three strips, a square of two
\* tiles by two strips at the origin, a triangle inside one tile, a
\* parallelogram with slanted sides, a diamond, a contour whose two slanted
\* edges exchange their x order from one strip to the next, a rectangle that
\* reaches left of the view box, two contours side by side, the square in
\* the opposite orientation, a contour of two points on a horizontal line, a
\* contour of one point, a square outside the view box, and an outline
\* with no contour.
Outlines ==
    { << Contour_new(<<0, 48, 48, 0>>, <<0, 0, 40, 40>>) >>,
      << Contour_new(<<0, 32, 32, 0>>, <<0, 0, 32, 32>>) >>,
      << Contour_new(<<0, 16, 0>>, <<0, 0, 16>>) >>,
      << Contour_new(<<8, 40, 56, 24>>, <<0, 0, 32, 32>>) >>,
      << Contour_new(<<24, 48, 24, 0>>, <<0, 24, 48, 24>>) >>,
      << Contour_new(<<0, 48, 48, 0>>, <<0, 48, 0, 48>>) >>,
      << Contour_new(<<0 - 24, 24, 24, 0 - 24>>, <<0, 0, 40, 40>>) >>,
      << Contour_new(<<0, 16, 0>>, <<0, 0, 16>>),
         Contour_new(<<40, 56, 40>>, <<8, 40, 40>>) >>,
      << Contour_new(<<0, 0, 32, 32>>, <<0, 32, 32, 0>>) >>,
      << Contour_new(<<0, 32>>, <<8, 8>>) >>,
      << Contour_new(<<5>>, <<5>>) >>,
      << Contour_new(<<80, 96, 96, 80>>, <<0, 0, 16, 16>>) >>,
      << >> }

\* Option<&PaintMetadata>, and PathId.
PaintMetadatas == {None, Some([is_opaque |-> TRUE]), Some([is_opaque |-> FALSE])}
PathId_Draw(index) == [kind |-> "Draw", index |-> index]
PathId_Clip(index) == [kind |-> "Clip", index |-> index]

\* The step of Tiler p that leads to next = [tiler, builder].
TilerStep(p, next) ==
    /\ tilers' = [tilers EXCEPT ![p] = next.tiler]
    /\ scene_builder' = next.builder
    /\ UNCHANGED <<atlas_texture_length, pages, requested, returned, calls, lastCall, atlas,
                   locations, live, pc, failure, previous, stream>>

\* generate_tiles is called: the point queue is initialised.
GenerateTiles(p) ==
    /\ tilers[p].pc = "new"
    /\ TilerStep(p, [tiler |-> generate_tiles(tilers[p]), builder |-> scene_builder])

\* generate_strip(strip_origin_y) is called and process_old_active_edges
\* takes over the active edges.
StartStrip(p) ==
    /\ tilers[p].pc = "strip"
    /\ TilerStep(p, [tiler |-> start_strip(tilers[p]), builder |-> scene_builder])

\* The loop of process_old_active_edges handles its next edge.
ProcessOldActiveEdge(p) ==
    /\ tilers[p].pc = "in_strip"
    /\ tilers[p].old_active_edges # <<>>
    /\ TilerStep(p, process_old_active_edge(tilers[p], scene_builder))

\* The loop of generate_strip calls add_new_active_edge.
AddNewActiveEdge(p) ==
    /\ tilers[p].pc = "in_strip"
    /\ tilers[p].old_active_edges = <<>>
    /\ has_endpoint_for_strip(tilers[p])
    /\ TilerStep(p, add_new_active_edge(tilers[p], scene_builder))

\* generate_strip returns.
EndStrip(p) ==
    /\ tilers[p].pc = "in_strip"
    /\ tilers[p].old_active_edges = <<>>
    /\ ~has_endpoint_for_strip(tilers[p])
    /\ TilerStep(p, [tiler |-> end_strip(tilers[p]), builder |-> scene_builder])

\* The loop of pack_and_cull_if_necessary handles its next tile.
PackAndCullTile(p) ==
    /\ tilers[p].pc = "pack"
    /\ TilerStep(p, pack_and_cull_tile(tilers[p], scene_builder))

(***************************************************************************)
(* SpecTiler: one path is tiled; when it is done the same outline may be   *)
(* tiled once more against the same view box, with the same SceneBuilder   *)
(* or with a new one.  The z-buffer starts with the object of an earlier   *)
(* path in every entry, or with none.                                      *)
(***************************************************************************)
InitTiler ==
    /\ atlas_texture_length = Pow2(AtlasLog)
    /\ pages = TextureAllocator_new
    /\ requested = <<>>
    /\ returned = <<>>
    /\ calls = 0
    /\ lastCall = NoCall
    /\ atlas = TextureAtlasAllocator_new
    /\ locations = <<>>
    /\ live = {}
    /\ pc = "tiler"
    /\ failure = "none"
    /\ previous = <<>>
    /\ stream = <<>>
    /\ \E depth \in {0 - 1, 0, 2}, next_alpha_tile_index \in {0, 3} :
         scene_builder = SceneBuilder_new(VIEW_BOX, depth, next_alpha_tile_index)
    /\ \E outline \in Outlines, paint_metadata \in PaintMetadatas,
          id \in {PathId_Draw(1), PathId_Clip(1)}, debug_assertions \in BOOLEAN :
         tilers = << Tiler_new(scene_builder, outline, VIEW_BOX, id, paint_metadata,
                               debug_assertions) >>

\* The finished path is tiled again: Tiler::new with the same arguments.
Retile ==
    /\ pc = "tiler"
    /\ previous = <<>>
    /\ tilers[1].pc = "done"
    /\ previous' = << tilers[1] >>
    /\ \E b \in {scene_builder, SceneBuilder_new(VIEW_BOX, 0 - 1, 0)} :
         /\ scene_builder' = b
         /\ tilers' = << Tiler_new(b, tilers[1].outline, tilers[1].view_box, tilers[1].id,
                                   tilers[1].paint_metadata, tilers[1].debug_assertions) >>
    /\ UNCHANGED <<atlas_texture_length, pages, requested, returned, calls, lastCall, atlas,
                   locations, live, pc, failure, stream>>

NextTiler ==
    \/ GenerateTiles(1)
    \/ StartStrip(1)
    \/ ProcessOldActiveEdge(1)
    \/ AddNewActiveEdge(1)
    \/ EndStrip(1)
    \/ PackAndCullTile(1)
    \/ Retile

SpecTiler == InitTiler /\ [][NextTiler]_vars

\* generate_tiles is one call that runs without suspension, and the second
\* tiling of the path follows the first: a step that can be taken is taken.
\* This is weak fairness of NextTiler, WF_vars(NextTiler), written out by its
\* definition, with ENABLED <<NextTiler>>_vars spelled out: no step is left
\* once a debug assertion has stopped the Tiler or the second tiling is done.
SpecTilerFair ==
    /\ SpecTiler
    /\ \/ []<>(tilers[1].pc = "panic" \/ (tilers[1].pc = "done" /\ previous # <<>>))
       \/ []<><<NextTiler>>_vars

(***************************************************************************)
(* SpecScene: the SceneBuilder tiles two draw paths, objects 0 and 1, each *)
(* with a Tiler and a BuiltObject of its own; the steps of the two Tilers  *)
(* interleave in any order.                                                *)
(***************************************************************************)
SceneOutlines ==
    { << Contour_new(<<0, 16, 16, 0>>, <<0, 0, 40, 40>>) >>,
      << Contour_new(<<0, 16, 16, 0>>, <<8, 8, 48, 48>>) >> }

InitScene ==
    /\ atlas_texture_length = Pow2(AtlasLog)
    /\ pages = TextureAllocator_new
    /\ requested = <<>>
    /\ returned = <<>>
    /\ calls = 0
    /\ lastCall = NoCall
    /\ atlas = TextureAtlasAllocator_new
    /\ locations = <<>>
    /\ live = {}
    /\ pc = "scene"
    /\ failure = "none"
    /\ previous = <<>>
    /\ stream = <<>>
    /\ scene_builder = SceneBuilder_new(VIEW_BOX, 0 - 1, 0)
    /\ \E outlines \in SceneOutlines \X SceneOutlines,
          opaque \in BOOLEAN \X BOOLEAN :
         tilers = [p \in 1..2 |->
                      Tiler_new(scene_builder, outlines[p], VIEW_BOX, PathId_Draw(p - 1),
                                Some([is_opaque |-> opaque[p]]), FALSE)]

NextScene ==
    \/ \E p \in 1..2 : GenerateTiles(p)
    \/ \E p \in 1..2 : StartStrip(p)
    \/ \E p \in 1..2 : ProcessOldActiveEdge(p)
    \/ \E p \in 1..2 : AddNewActiveEdge(p)
    \/ \E p \in 1..2 : EndStrip(p)
    \/ \E p \in 1..2 : PackAndCullTile(p)

SpecScene == InitScene /\ [][NextScene]_vars

(***************************************************************************)
(* SpecCurve: one Tiler on outlines with cubic segments.                   *)
(***************************************************************************)
\* A contour whose right side is a cubic that descends through three strips,
\* a contour whose left side is a cubic that ascends through them, a contour
\* with a cubic one of whose flat pieces passes through four strips, and a
\* rectangle of lines.
CurveOutlines ==
    { << << Vector2I_new(0, 0),
            [x |-> 32, y |-> 0, curve |-> <<Vector2I_new(40, 12), Vector2I_new(44, 28)>>],
            Vector2I_new(32, 40), Vector2I_new(0, 40) >> >>,
      << << Vector2I_new(8, 0), Vector2I_new(32, 0), Vector2I_new(32, 40),
            [x |-> 8, y |-> 40, curve |-> <<Vector2I_new(2, 28), Vector2I_new(4, 12)>>] >> >>,
      << << Vector2I_new(0, 0),
            [x |-> 16, y |-> 0, curve |-> <<Vector2I_new(24, 8), Vector2I_new(28, 56)>>],
            Vector2I_new(16, 64), Vector2I_new(0, 64) >> >>,
      << Contour_new(<<0, 48, 48, 0>>, <<0, 0, 40, 40>>) >> }

InitCurve ==
    /\ atlas_texture_length = Pow2(AtlasLog)
    /\ pages = TextureAllocator_new
    /\ requested = <<>>
    /\ returned = <<>>
    /\ calls = 0
    /\ lastCall = NoCall
    /\ atlas = TextureAtlasAllocator_new
    /\ locations = <<>>
    /\ live = {}
    /\ pc = "tiler"
    /\ failure = "none"
    /\ previous = <<>>
    /\ stream = <<>>
    /\ scene_builder = SceneBuilder_new(VIEW_BOX, 0 - 1, 0)
    /\ \E outline \in CurveOutlines, is_opaque \in BOOLEAN, debug_assertions \in BOOLEAN :
         tilers = << Tiler_new(scene_builder, outline, VIEW_BOX, PathId_Draw(1),
                               Some([is_opaque |-> is_opaque]), debug_assertions) >>

SpecCurve == InitCurve /\ [][NextTiler]_vars

(***************************************************************************)
(* SpecWinding: one Tiler of an outline of coinciding copies of one        *)
(* contour, a rectangle one tile wide that spans two strips.  The Tiler is *)
(* the one of a single copy; in the second strip the left edges of all the *)
(* copies are processed in one step, which adds up their windings, and the *)
(* other edges and the fills of the further copies are left out.           *)
(***************************************************************************)
WindingOutlines ==
    { << Contour_new(<<0, 16, 16, 0>>, <<0, 0, 32, 32>>) >>,
      << Contour_new(<<0, 0, 16, 16>>, <<0, 32, 32, 0>>) >> }

InitWinding ==
    /\ atlas_texture_length = Pow2(AtlasLog)
    /\ pages = TextureAllocator_new
    /\ requested = <<>>
    /\ returned = <<>>
    /\ calls = 0
    /\ lastCall = NoCall
    /\ atlas = TextureAtlasAllocator_new
    /\ locations = <<>>
    /\ live = {}
    /\ pc = "tiler"
    /\ failure = "none"
    /\ previous = <<>>
    /\ stream = <<>>
    /\ scene_builder = SceneBuilder_new(VIEW_BOX, 0 - 1, 0)
    /\ \E outline \in WindingOutlines :
         tilers = << Tiler_new(scene_builder, outline, VIEW_BOX, PathId_Draw(1),
                               Some([is_opaque |-> FALSE]), TRUE) >>

\* The iterations of the loop of process_old_active_edges for the left
\* edges of all the copies, which lie at the same x: current_winding +=
\* edge_winding once for each copy.
ProcessCoincidingEdges(p) ==
    /\ tilers[p].pc = "in_strip"
    /\ Len(tilers[p].old_active_edges) = 2
    /\ \E copies \in 2..MaxWinding :
         \E next \in {process_old_active_edge(tilers[p], scene_builder)} :
           TilerStep(p, [next EXCEPT !.tiler.current_winding = @ * copies])

NextWinding ==
    \/ GenerateTiles(1)
    \/ StartStrip(1)
    \/ ProcessOldActiveEdge(1)
    \/ ProcessCoincidingEdges(1)
    \/ AddNewActiveEdge(1)
    \/ EndStrip(1)
    \/ PackAndCullTile(1)

SpecWinding == InitWinding /\ [][NextWinding]_vars

(***************************************************************************)
(* SpecStream: a scene build sends its RenderCommands: Start, then paint   *)
(* data, fill batches, fill flushes and tile draws in any order, then      *)
(* Finish.                                                                 *)
(***************************************************************************)
\* enum RenderCommand, without the payloads.
RenderCommand(kind) == [kind |-> kind]
BuildCommands ==
    { RenderCommand(kind) :
        kind \in {"AddPaintData", "AddFills", "FlushFills", "DrawAlphaTiles", "DrawSolidTiles"} }

\* The build has sent Finish.
build_finished_never(commands) == FALSE
build_finished(commands) ==
    commands # <<>> /\ commands[Len(commands)] = RenderCommand("Finish")

InitStream ==
    /\ atlas_texture_length = Pow2(AtlasLog)
    /\ pages = TextureAllocator_new
    /\ requested = <<>>
    /\ returned = <<>>
    /\ calls = 0
    /\ lastCall = NoCall
    /\ atlas = TextureAtlasAllocator_new
    /\ locations = <<>>
    /\ live = {}
    /\ pc = "stream"
    /\ failure = "none"
    /\ tilers = <<>>
    /\ scene_builder = <<>>
    /\ previous = <<>>
    /\ stream = <<>>

SendCommand(command) ==
    /\ pc = "stream"
    /\ stream' = Append(stream, command)
    /\ UNCHANGED <<tilers, scene_builder, previous, atlas_texture_length, requested, pages,
                   returned, calls, lastCall, atlas, locations, live, pc, failure>>

SendStart == stream = <<>> /\ SendCommand(RenderCommand("Start"))

SendBuildCommand ==
    /\ stream # <<>> /\ ~build_finished(stream) /\ Len(stream) <= MaxCommands
    /\ \E command \in BuildCommands : SendCommand(command)

SendFinish ==
    /\ stream # <<>> /\ ~build_finished(stream)
    /\ SendCommand(RenderCommand("Finish"))

NextStream == SendStart \/ SendBuildCommand \/ SendFinish

SpecStream == InitStream /\ [][NextStream]_vars

(***************************************************************************)
(* Properties.                                                             *)
(***************************************************************************)
\* RectI::intersects: the two rectangles share a point of positive area.
Intersects(a, b) ==
    /\ a.origin.x < b.lower_right.x /\ b.origin.x < a.lower_right.x
    /\ a.origin.y < b.lower_right.y /\ b.origin.y < a.lower_right.y

\* The height of a rectangle.
RectI_height(r) == r.lower_right.y - r.origin.y

IsPowerOfTwo(n) == \E k \in 0..(AtlasLog + 1) : n = Pow2(k)

\* C1 (SpecTest). Round-trip emptiness: once every size of the vector has
\* been allocated on an atlas of power-of-two length and every returned
\* location has been freed, in any order, the atlas is empty and nothing
\* has panicked.
RoundTripEmptiness ==
    (pc # "allocating" /\ locations = <<>>) => (is_empty(atlas) /\ failure = "none")

\* A run of the test on the largest atlas that tried MaxSizes sizes, freed
\* every location (last a block smaller than the atlas) and passed the assertion.
RoundTripWitness ==
    /\ pc = "done"
    /\ atlas.size = ATLAS_TEXTURE_LENGTH
    /\ calls = MaxSizes
    /\ lastCall.op = "atlas_free"
    /\ lastCall.size # Vector2I_splat(ATLAS_TEXTURE_LENGTH)

\* C2 (Spec). Non-overlap: the rectangles returned by successful allocations
\* (no free happens in Spec) in the same atlas page are pairwise
\* non-overlapping.
NonOverlap ==
    \A i, j \in 1..Len(returned) :
        (/\ i < j
         /\ returned[i].page = returned[j].page
         /\ pages[returned[i].page + 1].kind = "Atlas")
        => ~Intersects(returned[i].rect, returned[j].rect)

\* Three allocations of two different sizes in one atlas page.
NonOverlapWitness ==
    /\ Len(returned) = 3
    /\ \A i \in 1..3 : returned[i].page = 0
    /\ pages[1].kind = "Atlas"
    /\ RectI_width(returned[1].rect) # RectI_width(returned[2].rect)
    /\ RectI_width(returned[3].rect) = RectI_width(returned[1].rect)

\* C3 (Spec). Power-of-two size: a rectangle returned from an atlas page is a
\* square whose side is the least power of two that is at least
\* max(requested.x, requested.y) (1 when that maximum is 0).
PowerOfTwoSize ==
    (/\ lastCall.op = "allocate"
     /\ IsSome(lastCall.result)
     /\ pages[Unwrap(lastCall.result).page + 1].kind = "Atlas")
    => LET rect == Unwrap(lastCall.result).rect
           m == Max(lastCall.size.x, lastCall.size.y)
           side == RectI_width(rect)
       IN  /\ RectI_height(rect) = side
           /\ IsPowerOfTwo(side)
           /\ side >= m
           /\ (side = 1 \/ side \div 2 < m)

\* A request with different components, the larger one no power of two,
\* placed in an atlas page that already holds an allocation.
PowerOfTwoSizeWitness ==
    /\ lastCall.op = "allocate"
    /\ lastCall.size = Vector2I_new(1, 3)
    /\ IsSome(lastCall.result)
    /\ pages[Unwrap(lastCall.result).page + 1].kind = "Atlas"
    /\ Len(returned) >= 2

\* A step of Spec that is a call of op.
IsCall(op) == calls' = calls + 1 /\ lastCall'.op = op

\* The existing pages are what they were.
PagesKept == \A i \in 1..Len(pages) : pages'[i] = pages[i]

\* C4 (Spec). Oversize goes to its own page: allocate with a component above
\* ATLAS_TEXTURE_LENGTH appends exactly one Image page of exactly the requested
\* size and returns the new page's index with the rect (0,0)+size; the
\* existing pages, atlas pages among them, are untouched.
OversizeOwnPage ==
    [][(/\ IsCall("allocate")
        /\ (\/ lastCall'.size.x > ATLAS_TEXTURE_LENGTH
            \/ lastCall'.size.y > ATLAS_TEXTURE_LENGTH))
       => (/\ page_count(pages') = page_count(pages) + 1
           /\ pages'[Len(pages')].kind = "Image"
           /\ page_size(pages', page_count(pages)) = lastCall'.size
           /\ IsSome(lastCall'.result)
           /\ Unwrap(lastCall'.result).page = page_count(pages)
           /\ Unwrap(lastCall'.result).rect.origin = Vector2I_default
           /\ RectI_size(Unwrap(lastCall'.result).rect) = lastCall'.size
           /\ PagesKept)]_vars

\* An image that is oversize in its height only got the third page, after
\* an atlas page that holds an allocation.
OversizeOwnPageWitness ==
    /\ lastCall.op = "allocate"
    /\ lastCall.size = Vector2I_new(1, ATLAS_TEXTURE_LENGTH + 1)
    /\ Len(pages) = 3
    /\ pages[3].kind = "Image"
    /\ \E i \in 1..2 : pages[i].kind = "Atlas" /\ ~is_empty(pages[i].atlas)

\* Whether the quadtree below a node of this_size has an EmptyLeaf block of
\* at least the side asked for.
RECURSIVE HasFreeBlock(_, _, _)
HasFreeBlock(node, this_size, side) ==
    /\ this_size >= side
    /\ \/ node.tag = "EmptyLeaf"
       \/ /\ node.tag = "Parent"
          /\ \E i \in 1..4 : HasFreeBlock(node.kids[i], this_size \div 2, side)

\* The least power of two that is at least m.
LeastPowerOfTwo(m) ==
    CHOOSE p \in {Pow2(k) : k \in 0..(AtlasLog + 1)} :
        /\ p >= m
        /\ \A q \in {Pow2(k) : k \in 0..(AtlasLog + 1)} : q >= m => p <= q

\* The indices of the atlas pages that can hold a request.
FittingPages(these_pages, size) ==
    {i \in 0..(Len(these_pages) - 1) :
        /\ these_pages[i + 1].kind = "Atlas"
        /\ HasFreeBlock(these_pages[i + 1].atlas.root, these_pages[i + 1].atlas.size,
                        LeastPowerOfTwo(Max(size.x, size.y)))}

\* C5 (Spec). First fit over pages: an atlas-sized request is placed in the
\* lowest-indexed Atlas page whose quadtree can hold it, Image and
\* RenderTarget pages are skipped and left alone, and a new Atlas page of
\* length ATLAS_TEXTURE_LENGTH is appended only when no Atlas page can hold it.
FirstFit ==
    [][(/\ IsCall("allocate")
        /\ lastCall'.size.x <= ATLAS_TEXTURE_LENGTH
        /\ lastCall'.size.y <= ATLAS_TEXTURE_LENGTH)
       => LET fits == FittingPages(pages, lastCall'.size)
          IN  /\ IsSome(lastCall'.result)
              /\ pages'[Unwrap(lastCall'.result).page + 1].kind = "Atlas"
              /\ \A i \in 1..Len(pages) : pages[i].kind # "Atlas" => pages'[i] = pages[i]
              /\ IF fits # {}
                 THEN /\ \A i \in fits : Unwrap(lastCall'.result).page <= i
                      /\ Unwrap(lastCall'.result).page \in fits
                      /\ page_count(pages') = page_count(pages)
                 ELSE /\ page_count(pages') = page_count(pages) + 1
                      /\ Unwrap(lastCall'.result).page = page_count(pages)
                      /\ page_size(pages', page_count(pages)) =
                             Vector2I_splat(ATLAS_TEXTURE_LENGTH)
                      /\ PagesKept]_vars

\* Pages: an atlas holding a small block, a render target, an atlas filled
\* by one block. A request the first atlas can hold is placed there, not in
\* a later page.
FirstFitWitness ==
    /\ lastCall.op = "allocate"
    /\ Len(pages) = 3 /\ calls = 4
    /\ pages[1].kind = "Atlas" /\ pages[2].kind = "RenderTarget" /\ pages[3].kind = "Atlas"
    /\ pages[3].atlas.root = FullLeaf
    /\ Unwrap(lastCall.result).page = 0

\* A request that the only atlas page cannot hold opened a new atlas page,
\* although the first page still has free blocks.
FirstFitNewPageWitness ==
    /\ lastCall.op = "allocate"
    /\ Len(pages) = 2
    /\ pages[1].kind = "Atlas" /\ pages[2].kind = "Atlas"
    /\ HasFreeBlock(pages[1].atlas.root, pages[1].atlas.size, 1)
    /\ Unwrap(lastCall.result).page = 1

\* C6 (Spec). TextureAllocator::allocate never fails: every call, for a size
\* within the atlas length (a component equal to it included) or oversize
\* and after any earlier calls, returns a location, and the
\* expect("Allocation failed!") on the new atlas page is never triggered.
AllocateNeverFails ==
    /\ failure = "none"
    /\ lastCall.op = "allocate" => IsSome(lastCall.result)

\* A request of exactly the atlas length, made when the existing atlas page
\* could not hold it, got a new atlas page of its own.
AllocateNeverFailsWitness ==
    /\ lastCall.op = "allocate"
    /\ lastCall.size = Vector2I_splat(ATLAS_TEXTURE_LENGTH)
    /\ Len(pages) >= 2
    /\ pages[1].kind = "Atlas" /\ ~is_empty(pages[1].atlas) /\ pages[1].atlas.root # FullLeaf
    /\ Unwrap(lastCall.result).page = Len(pages) - 1
    /\ pages[Len(pages)].kind = "Atlas"
    /\ pages[Len(pages)].atlas.root = FullLeaf

\* C7 (Spec). allocate_render_target(size, id) appends exactly one
\* RenderTarget page, returns its index with the rect (0,0)+size, makes
\* page_render_target_id of that page Some(id) and leaves the existing pages
\* unchanged; page_render_target_id is None for every Atlas and Image page.
RenderTargetOwnPage ==
    [][IsCall("allocate_render_target")
       => (/\ page_count(pages') = page_count(pages) + 1
           /\ pages'[Len(pages')].kind = "RenderTarget"
           /\ page_render_target_id(pages', page_count(pages)) = Some(lastCall'.id)
           /\ page_size(pages', page_count(pages)) = lastCall'.size
           /\ lastCall'.result =
                  Some(TextureLocation(page_count(pages),
                                       RectI_new(Vector2I_default, lastCall'.size)))
           /\ PagesKept
           /\ \A i \in 0..(page_count(pages') - 1) :
                  pages'[i + 1].kind \in {"Atlas", "Image"}
                  => page_render_target_id(pages', i) = None)]_vars

\* A render target with id 1 was appended after an atlas page, an image page
\* and a render target with id 0.
RenderTargetOwnPageWitness ==
    /\ lastCall.op = "allocate_render_target"
    /\ lastCall.id = 1
    /\ Len(pages) = 4
    /\ pages[4].kind = "RenderTarget"
    /\ \E i \in 1..3 : pages[i].kind = "Atlas" /\ ~is_empty(pages[i].atlas)
    /\ \E i \in 1..3 : pages[i].kind = "Image"
    /\ \E i \in 1..3 : pages[i].kind = "RenderTarget" /\ pages[i].id = 0

\* C8 (Spec). Pages are append-only and never re-indexed: over every call
\* page_count does not decrease and grows by at most one, the kind and the
\* page_size of an existing page do not change, and the returned location
\* has page < page_count and a rect inside [0, page_size(page)).
PagesAppendOnly ==
    [][(IsCall("allocate") \/ IsCall("allocate_render_target"))
       => (/\ page_count(pages') >= page_count(pages)
           /\ page_count(pages') <= page_count(pages) + 1
           /\ \A i \in 0..(page_count(pages) - 1) :
                  /\ pages'[i + 1].kind = pages[i + 1].kind
                  /\ page_size(pages', i) = page_size(pages, i)
           /\ IsSome(lastCall'.result)
           /\ LET loc == Unwrap(lastCall'.result)
              IN  /\ loc.page >= 0 /\ loc.page < page_count(pages')
                  /\ loc.rect.origin.x >= 0 /\ loc.rect.origin.y >= 0
                  /\ loc.rect.lower_right.x <= page_size(pages', loc.page).x
                  /\ loc.rect.lower_right.y <= page_size(pages', loc.page).y)]_vars

\* Four pages of all three kinds, and the last call placed a block in the
\* first page, away from its origin.
PagesAppendOnlyWitness ==
    /\ calls = MaxCalls
    /\ lastCall.op = "allocate"
    /\ {pages[i].kind : i \in 1..Len(pages)} = {"Atlas", "Image", "RenderTarget"}
    /\ Unwrap(lastCall.result).page = 0
    /\ Unwrap(lastCall.result).rect.origin # Vector2I_default

\* Whether some leaf at or below the node is a FullLeaf.
RECURSIVE HasFullLeaf(_)
HasFullLeaf(node) ==
    \/ node.tag = "FullLeaf"
    \/ node.tag = "Parent" /\ \E i \in 1..4 : HasFullLeaf(node.kids[i])

\* Every node at or below the node is an EmptyLeaf exactly when no leaf at
\* or below it is full.
RECURSIVE EmptyIffNoFullLeaf(_)
EmptyIffNoFullLeaf(node) ==
    /\ (node.tag = "EmptyLeaf") <=> ~HasFullLeaf(node)
    /\ node.tag = "Parent" => \A i \in 1..4 : EmptyIffNoFullLeaf(node.kids[i])

\* C9 (SpecAtlas). is_empty() tracks live allocations: after any allocations
\* and frees of returned locations, every node of the quadtree is an EmptyLeaf
\* exactly when no leaf below it is full, and is_empty() is true exactly when
\* no allocation is live.
IsEmptyTracksLive ==
    /\ EmptyIffNoFullLeaf(atlas.root)
    /\ is_empty(atlas) <=> live = {}

\* Length 4: after a 2x2 and a 1x1 block were allocated, the 2x2 block was
\* freed and the atlas is not empty.
IsEmptyTracksLiveWitness ==
    /\ atlas.size = 4
    /\ lastCall.op = "atlas_free"
    /\ lastCall.size = Vector2I_splat(2)
    /\ calls = 2
    /\ Cardinality(live) = 1
    /\ \E r \in live : RectI_width(r) = 1
    /\ ~is_empty(atlas)

\* Then the 1x1 block was freed too and the atlas is empty.
IsEmptyTracksLiveEmptyWitness ==
    /\ atlas.size = 4
    /\ lastCall.op = "atlas_free"
    /\ lastCall.size = Vector2I_splat(1)
    /\ calls = 2
    /\ live = {}
    /\ is_empty(atlas)

\* No node at or below the node is a Parent of four EmptyLeaf children.
RECURSIVE NoParentOfEmptyLeaves(_)
NoParentOfEmptyLeaves(node) ==
    node.tag = "Parent"
    => /\ \E i \in 1..4 : node.kids[i].tag # "EmptyLeaf"
       /\ \A i \in 1..4 : NoParentOfEmptyLeaves(node.kids[i])

\* C10 (SpecAtlas). After every call (allocate, successful or failed, and
\* free of a returned location) no node of the quadtree is a Parent whose
\* four children are all EmptyLeaf.
NeverParentOfEmptyLeaves == NoParentOfEmptyLeaves(atlas.root)

\* A failed allocate on an atlas whose root and one of its children are
\* split and that still has an empty child, after an earlier call failed or a
\* block was freed.
NeverParentOfEmptyLeavesWitness ==
    /\ lastCall.op = "atlas_allocate"
    /\ lastCall.result = None
    /\ atlas.root.tag = "Parent"
    /\ \E i \in 1..4 : atlas.root.kids[i].tag = "Parent"
    /\ \E i \in 1..4 : atlas.root.kids[i].tag = "EmptyLeaf"
    /\ Cardinality(live) < calls - 1

\* C11 (Spec). Every rectangle returned from an atlas page is power-of-two
\* aligned within its page: the x and the y of its origin are multiples of
\* its side, and it lies inside [0, atlas length) x [0, atlas length).
PowerOfTwoAligned ==
    \A i \in 1..Len(returned) :
        pages[returned[i].page + 1].kind = "Atlas"
        => LET rect == returned[i].rect
               side == RectI_width(rect)
               length == pages[returned[i].page + 1].atlas.size
           IN  /\ side > 0
               /\ rect.origin.x % side = 0
               /\ rect.origin.y % side = 0
               /\ rect.origin.x >= 0 /\ rect.origin.y >= 0
               /\ rect.lower_right.x <= length
               /\ rect.lower_right.y <= length

\* Blocks of side 2 and of side 1 in one atlas page, one of them in the
\* bottom half of the page and one away from the left edge.
PowerOfTwoAlignedWitness ==
    /\ Len(returned) = 4
    /\ \A i \in 1..4 : returned[i].page = 0
    /\ pages[1].kind = "Atlas"
    /\ \E i \in 1..4 : RectI_width(returned[i].rect) = 2
    /\ \E i \in 1..4 : RectI_width(returned[i].rect) = 1 /\ returned[i].rect.origin.y > 0
    /\ \E i \in 1..4 : returned[i].rect.origin.x > 0

\* The first n requests of the filling caller were all of this size.
FirstRequestsAre(n, size) ==
    /\ Len(requested) >= n
    /\ \A i \in 1..n : requested[i] = size

\* Every request so far was (1, 1).
OnlySmallRequests == FirstRequestsAre(Len(requested), Vector2I_splat(1))

\* C12 (SpecFill). With atlas length 4, the k-th of up to four successive
\* (2,2) requests returns (0,0)-(2,2), (2,0)-(4,2), (0,2)-(2,4), (2,2)-(4,4)
\* in that order on page 0 (top left, top right, bottom left, bottom right),
\* and a fifth request (1,1) is placed on page 1 at (0,0)-(1,1).
ChildOrderScenario ==
    LET expected == << Vector2I_new(0, 0), Vector2I_new(2, 0),
                       Vector2I_new(0, 2), Vector2I_new(2, 2) >>
    IN  ATLAS_TEXTURE_LENGTH = 4
        => /\ Len(returned) = Len(requested)
           /\ \A k \in 1..4 :
                 FirstRequestsAre(k, Vector2I_splat(2))
                 => returned[k] = TextureLocation(0, RectI_new(expected[k], Vector2I_splat(2)))
           /\ ( /\ FirstRequestsAre(4, Vector2I_splat(2))
                /\ Len(requested) >= 5
                /\ requested[5] = Vector2I_splat(1) )
              => returned[5] = TextureLocation(1, RectI_new(Vector2I_default, Vector2I_splat(1)))

ChildOrderScenarioWitness ==
    /\ ATLAS_TEXTURE_LENGTH = 4
    /\ requested = << Vector2I_splat(2), Vector2I_splat(2), Vector2I_splat(2),
                      Vector2I_splat(2), Vector2I_splat(1) >>
    /\ Len(returned) = 5
    /\ returned[5].page = 1
    /\ Len(pages) = 2

\* C13 (SpecFill). Page capacity is exact: with only (1,1) requests on an
\* atlas of length 8, the first 64 requests are all placed on page 0 in 64
\* distinct cells, no second page exists before the 65th request, and the
\* 65th is placed on page 1; in general, with only requests of side s (1 or
\* 2) on an atlas of length L (4 or 8), the same holds with (L/s)^2 for 64.
ExactPageCapacity ==
    \A side \in {1, 2} :
        LET capacity == (ATLAS_TEXTURE_LENGTH \div side) * (ATLAS_TEXTURE_LENGTH \div side)
            n == Len(requested)
        IN  FirstRequestsAre(n, Vector2I_splat(side))
            => /\ Len(returned) = n
               /\ \A i \in 1..Min(n, capacity) :
                     /\ returned[i].page = 0
                     /\ RectI_size(returned[i].rect) = Vector2I_splat(side)
                     /\ \A j \in 1..(i - 1) : returned[j].rect # returned[i].rect
               /\ (n <= capacity) => Len(pages) <= 1
               /\ (n > capacity) => returned[capacity + 1].page = 1

ExactPageCapacityWitness ==
    /\ ATLAS_TEXTURE_LENGTH = 8
    /\ OnlySmallRequests
    /\ Len(requested) = 65
    /\ \A i \in 1..64 : returned[i].page = 0
    /\ returned[65].page = 1

\* C14 as stated (SpecFill): with atlas length 8 and only (1,1) requests, up to
\* 200 of them, every returned rect is on the first page.
AllOnFirstPage ==
    (ATLAS_TEXTURE_LENGTH = 8 /\ OnlySmallRequests /\ Len(requested) <= 200)
    => \A i \in 1..Len(returned) : returned[i].page = 0

\* C14, amended (SpecFill): with atlas length 8 and only (1,1) requests, up to
\* 200 of them, the k-th rect is placed on page (k - 1) div 64: requests 1..64
\* on page 0, 65..128 on page 1, 129..192 on page 2 and 193..200 on page 3.
SmallRectsFillPagesInOrder ==
    (ATLAS_TEXTURE_LENGTH = 8 /\ OnlySmallRequests /\ Len(requested) <= 200)
    => /\ Len(returned) = Len(requested)
       /\ \A k \in 1..Len(returned) : returned[k].page = (k - 1) \div 64

SmallRectsFillPagesInOrderWitness ==
    /\ ATLAS_TEXTURE_LENGTH = 8
    /\ OnlySmallRequests
    /\ Len(requested) = 200
    /\ Len(returned) = 200
    /\ returned[200].page = 3
    /\ Len(pages) = 4

\* C15 as stated (SpecRaw): whatever the requested size (components zero,
\* negative or larger than the atlas length), TextureAtlasAllocator::allocate
\* works with a side length in [1, atlas length], any rectangle it returns
\* has a side in that range, and the requested length does not wrap around.
RequestedSizesClamped ==
    lastCall.op = "atlas_allocate"
    => /\ failure = "none"
       /\ ~requested_length_overflows(lastCall.size)
       /\ requested_length(lastCall.size) \in 1..atlas.size
       /\ IsSome(lastCall.result)
          => RectI_width(Unwrap(lastCall.result)) \in 1..atlas.size

\* The edges of a sequence in ascending order of the x-intercept kept in
\* crossing, every crossing being the upper point of the part of the segment
\* still to be tiled, on the line y = top.
EdgesSortedAt(edges, top) ==
    /\ \A i \in 1..Len(edges) :
          /\ edges[i].crossing = upper_point(edges[i].segment.baseline)
          /\ edges[i].crossing.y = top
    /\ \A i \in 1..(Len(edges) - 1) : edges[i].crossing.x <= edges[i + 1].crossing.x

\* C16: strip monotonicity.  While a strip is processed, the edges carried
\* over from the previous strip that are still to be handled are sorted
\* ascending by crossing.x, each crossing lying on the top of the strip, and
\* the next of them is not left of the one handled last (segment_x >=
\* last_segment_x), as the x-intercepts handled so far in the strip ascend;
\* the edges collected for the next strip are sorted by their crossing on the
\* bottom of the strip, and so are the edges a strip starts with.
StripMonotonicity ==
    \A p \in 1..Len(tilers) :
        LET tiler == tilers[p]
        IN  /\ tiler.pc = "in_strip" =>
                 /\ EdgesSortedAt(tiler.old_active_edges, tiler.strip_origin_y * TILE_HEIGHT)
                 /\ tiler.old_active_edges # <<>> =>
                        Head(tiler.old_active_edges).crossing.x >= tiler.last_segment_x
                 /\ EdgesSortedAt(tiler.active_edges,
                                  (tiler.strip_origin_y + 1) * TILE_HEIGHT)
                 /\ \A i \in 1..(Len(tiler.crossed) - 1) :
                        tiler.crossed[i].x <= tiler.crossed[i + 1].x
            /\ tiler.pc = "strip" =>
                 EdgesSortedAt(tiler.active_edges, tiler.strip_origin_y * TILE_HEIGHT)

\* The bow-tie enters its third strip: the two slanted edges have exchanged
\* their order since the strip before, and the four carried-over edges are
\* sorted by their x-intercepts 0, 16, 32, 48.
StripMonotonicityWitness ==
    /\ pc = "tiler"
    /\ tilers[1].pc = "in_strip"
    /\ tilers[1].strip_origin_y = 2
    /\ Len(tilers[1].old_active_edges) = 4
    /\ [i \in 1..4 |-> tilers[1].old_active_edges[i].crossing.x] = <<0, 16, 32, 48>>
    /\ tilers[1].old_active_edges[2].segment.baseline.to = Vector2I_new(0, 48)
    /\ tilers[1].old_active_edges[3].segment.baseline.to = Vector2I_new(48, 48)

RECURSIVE SumSeq(_)
SumSeq(s) == IF s = <<>> THEN 0 ELSE Head(s) + SumSeq(Tail(s))

\* The sum of edge_winding over the handled edges whose x-intercept is in xs.
WindingIn(crossed, xs) ==
    LET selected == SelectSeq(crossed, LAMBDA e : e.x \in xs)
    IN  SumSeq([i \in 1..Len(selected) |-> selected[i].winding])

\* The backdrop of the tile (x, y) of a Tiler's tile map.
BackdropAt(tiler, x, y) ==
    tiler.built_object.tiles.data[
        Unwrap(tile_coords_to_local_index(tiler.built_object, Vector2I_new(x, y))) + 1].backdrop

\* The carried-over edges of the current strip have all been handled.
StripBackdropsDone(tiler) == tiler.pc = "in_strip" /\ tiler.old_active_edges = <<>>

\* The x-intercepts that lie between the tiles x and x + 1, under three
\* readings: right of the left edge of tile x up to the left edge of tile
\* x + 1; the same with the left end taken in and the right end left out;
\* strictly inside the two tiles together.
BetweenTiles(reading, x) ==
    CASE reading = 1 -> (x * TILE_WIDTH + 1)..((x + 1) * TILE_WIDTH)
      [] reading = 2 -> (x * TILE_WIDTH)..((x + 1) * TILE_WIDTH - 1)
      [] reading = 3 -> (x * TILE_WIDTH + 1)..((x + 2) * TILE_WIDTH - 1)

\* C17 as stated: once the carried-over edges of a strip are handled, for
\* every two horizontally adjacent tiles (x, y), (x + 1, y) of the strip,
\* backdrop(x + 1, y) is backdrop(x, y) plus the sum of edge_winding of the
\* edges whose x-intercept lies between them (under one of the readings of
\* "between", the same for all the tiles of the strip).
BackdropConsistency ==
    \A p \in 1..Len(tilers) :
        LET tiler == tilers[p]
            rect == tile_rect(tiler.built_object)
            y == tiler.strip_origin_y
        IN  StripBackdropsDone(tiler) =>
                \E reading \in 1..3 :
                    \A x \in rect.origin.x..(rect.lower_right.x - 2) :
                        BackdropAt(tiler, x + 1, y) =
                            BackdropAt(tiler, x, y)
                                + WindingIn(tiler.crossed, BetweenTiles(reading, x))

\* C17, amended: once the carried-over edges of a strip are handled, a tile
\* (x, y) of the strip that lies left of the tile column of the last of them
\* and has none of their x-intercepts strictly inside it has as backdrop the
\* sum (as i8) of edge_winding of the edges whose x-intercept is at or left
\* of the tile's left edge; every other tile of the strip has backdrop 0.
BackdropLeftOfEdges ==
    \A p \in 1..Len(tilers) :
        LET tiler == tilers[p]
            rect == tile_rect(tiler.built_object)
            y == tiler.strip_origin_y
            crossed == tiler.crossed
        IN  StripBackdropsDone(tiler) =>
                \A x \in rect.origin.x..(rect.lower_right.x - 1) :
                    BackdropAt(tiler, x, y) =
                        IF /\ crossed # <<>>
                           /\ x < i32_div(crossed[Len(crossed)].x, TILE_WIDTH)
                           /\ WindingIn([i \in 1..Len(crossed) |->
                                            [x |-> crossed[i].x, winding |-> 1]],
                                        (x * TILE_WIDTH + 1)..((x + 1) * TILE_WIDTH - 1)) = 0
                        THEN as_i8(WindingIn(crossed, (0 - 4 * TILE_WIDTH)..(x * TILE_WIDTH)))
                        ELSE 0

\* The diamond's second strip is handled: the tile left of the last edge's
\* tile has a nonzero backdrop, and the tile that holds the last edge's
\* x-intercept has backdrop 0 with no edge between the two tiles.
BackdropLeftOfEdgesWitness ==
    /\ pc = "tiler"
    /\ StripBackdropsDone(tilers[1])
    /\ tilers[1].strip_origin_y = 1
    /\ [i \in 1..Len(tilers[1].crossed) |-> tilers[1].crossed[i].x] = <<8, 40>>
    /\ BackdropAt(tilers[1], 1, 1) # 0
    /\ BackdropAt(tilers[1], 2, 1) = 0

\* The tile a Tiler's pack_and_cull loop is at occludes: it is solid, has a
\* nonzero backdrop and belongs to an object with an opaque paint.
AtOccludingTile(tiler) ==
    /\ tiler.pc = "pack"
    /\ is_solid(tiler.built_object.tiles.data[tiler.tile_index + 1])
    /\ tiler.built_object.tiles.data[tiler.tile_index + 1].backdrop # 0
    /\ Unwrap(tiler.paint_metadata).is_opaque

\* C18: opaque occlusion.  The step of pack_and_cull for a solid tile
\* (alpha_tile_index 0xFFFF) with nonzero backdrop of an object O with an
\* opaque paint emits no AlphaTile, and leaves the z-buffer as it was but for
\* the entry of the tile's coordinate, which holds max(previous value, O).
OpaqueOcclusion ==
    [][\A p \in 1..Len(tilers) :
          (AtOccludingTile(tilers[p]) /\ tilers'[p] # tilers[p]) =>
              LET tiler == tilers[p]
                  tile_coords == local_tile_index_to_coords(tiler.built_object,
                                                            tiler.tile_index)
              IN  /\ tiler.built_object.tiles.data[tiler.tile_index + 1].alpha_tile_index
                        = Pow2(16) - 1
                  /\ tilers'[p].built_object.alpha_tiles = tiler.built_object.alpha_tiles
                  /\ scene_builder'.z_buffer =
                        [scene_builder.z_buffer EXCEPT
                            ![tile_coords] = Max(scene_builder.z_buffer[tile_coords],
                                                 tiler.id.index)]]_vars

\* Object 1, opaque, has been tiled against a z-buffer that held 0: its
\* solid tiles with nonzero backdrop have 1 in the z-buffer and no AlphaTile,
\* while its other tiles have AlphaTiles.
OpaqueOcclusionWitness ==
    /\ pc = "tiler"
    /\ tilers[1].pc = "done"
    /\ tilers[1].id = PathId_Draw(1)
    /\ tilers[1].paint_metadata = Some([is_opaque |-> TRUE])
    /\ tilers[1].built_object.alpha_tiles # <<>>
    /\ \E i \in 0..(Len(tilers[1].built_object.tiles.data) - 1) :
          LET tile == tilers[1].built_object.tiles.data[i + 1]
              tile_coords == local_tile_index_to_coords(tilers[1].built_object, i)
          IN  /\ is_solid(tile) /\ tile.backdrop # 0
              /\ scene_builder.z_buffer[tile_coords] = 1
              /\ \E other \in DOMAIN scene_builder.z_buffer :
                    scene_builder.z_buffer[other] = 0
              /\ \A k \in 1..Len(tilers[1].built_object.alpha_tiles) :
                    LET upper_left == tilers[1].built_object.alpha_tiles[k].upper_left
                    IN  Vector2I_new(upper_left.tile_x, upper_left.tile_y) # tile_coords

\* SpecScene: every Tiler of the scene is done.
AllTiled == pc = "scene" /\ \A p \in 1..Len(tilers) : tilers[p].pc = "done"

\* The BuiltObject of path p when its Tiler runs alone against the
\* SceneBuilder the scene started with.
TiledAlone(p) ==
    LET builder == SceneBuilder_new(VIEW_BOX, 0 - 1, 0)
    IN  tile_alone(Tiler_new(builder, tilers[p].outline, tilers[p].view_box, tilers[p].id,
                             tilers[p].paint_metadata, tilers[p].debug_assertions),
                   builder).built_object

\* The object indices of the paths with an opaque paint that have a solid
\* tile with nonzero backdrop at coords.
Occluders(coords) ==
    { tilers[p].id.index : p \in
        { q \in 1..Len(tilers) :
            /\ tilers[q].id.kind = "Draw"
            /\ IsSome(tilers[q].paint_metadata)
            /\ Unwrap(tilers[q].paint_metadata).is_opaque
            /\ \E i \in 0..(Len(tilers[q].built_object.tiles.data) - 1) :
                  /\ local_tile_index_to_coords(tilers[q].built_object, i) = coords
                  /\ is_solid(tilers[q].built_object.tiles.data[i + 1])
                  /\ tilers[q].built_object.tiles.data[i + 1].backdrop # 0 } }

\* The final z-buffer holds at every coordinate the maximum object index
\* over the occluding tiles there, and its initial value where there is none.
ZBufferHoldsMaximum ==
    \A coords \in DOMAIN scene_builder.z_buffer :
        scene_builder.z_buffer[coords] =
            IF Occluders(coords) = {} THEN 0 - 1
            ELSE CHOOSE o \in Occluders(coords) : \A other \in Occluders(coords) : other <= o

\* A fill without its alpha_tile_index; an AlphaTile without the mask
\* coordinates derived from the alpha tile index.
FillGeometry(fill) == [from |-> fill.from, to |-> fill.to, tile_coords |-> fill.tile_coords]
VertexGeometry(vertex) ==
    [tile_x |-> vertex.tile_x, tile_y |-> vertex.tile_y,
     object_index |-> vertex.object_index, backdrop |-> vertex.backdrop]
AlphaTileGeometry(alpha_tile) ==
    [upper_left |-> VertexGeometry(alpha_tile.upper_left),
     upper_right |-> VertexGeometry(alpha_tile.upper_right),
     lower_left |-> VertexGeometry(alpha_tile.lower_left),
     lower_right |-> VertexGeometry(alpha_tile.lower_right)]

\* Two BuiltObjects with the same fills and AlphaTiles but for the alpha tile
\* indices, which correspond one to one.
SameButForAlphaTileIndices(a, b) ==
    /\ Len(a.fills) = Len(b.fills)
    /\ \A i \in 1..Len(a.fills) : FillGeometry(a.fills[i]) = FillGeometry(b.fills[i])
    /\ \A i, j \in 1..Len(a.fills) :
          (a.fills[i].alpha_tile_index = a.fills[j].alpha_tile_index)
              <=> (b.fills[i].alpha_tile_index = b.fills[j].alpha_tile_index)
    /\ Len(a.alpha_tiles) = Len(b.alpha_tiles)
    /\ \A i \in 1..Len(a.alpha_tiles) :
          AlphaTileGeometry(a.alpha_tiles[i]) = AlphaTileGeometry(b.alpha_tiles[i])
    /\ [i \in 1..Len(a.tiles.data) |-> a.tiles.data[i].backdrop]
          = [i \in 1..Len(b.tiles.data) |-> b.tiles.data[i].backdrop]
    /\ \A i \in 1..Len(a.tiles.data) : is_solid(a.tiles.data[i]) <=> is_solid(b.tiles.data[i])

\* C19 as stated: under every interleaving of the Tilers of a scene, the
\* final z-buffer holds at each tile coordinate the maximum object index over
\* the solid opaque nonzero-backdrop tiles there, and the fills and the alpha
\* tiles of each path equal those of tiling the path alone.
ParallelTilingOrderIndependent ==
    AllTiled =>
        /\ ZBufferHoldsMaximum
        /\ \A p \in 1..Len(tilers) :
              /\ tilers[p].built_object.fills = TiledAlone(p).fills
              /\ tilers[p].built_object.alpha_tiles = TiledAlone(p).alpha_tiles

\* C19, amended: under every interleaving the final z-buffer holds the
\* maximum as stated, and the fills and alpha tiles of each path equal those
\* of tiling it alone but for the alpha tile indices (and the mask
\* coordinates computed from them), which correspond one to one to those of
\* tiling alone; no alpha tile index is used by two paths, and every index
\* is below the scene's counter.
ParallelTilingUpToAlphaTileIndices ==
    AllTiled =>
        /\ ZBufferHoldsMaximum
        /\ \A p \in 1..Len(tilers) :
              /\ SameButForAlphaTileIndices(tilers[p].built_object, TiledAlone(p))
              /\ \A i \in 1..Len(tilers[p].built_object.fills) :
                    /\ tilers[p].built_object.fills[i].alpha_tile_index
                          < scene_builder.next_alpha_tile_index
                    /\ \A q \in 1..Len(tilers) : \A j \in 1..Len(tilers[q].built_object.fills) :
                          q # p => tilers[q].built_object.fills[j].alpha_tile_index
                                      # tilers[p].built_object.fills[i].alpha_tile_index

\* Both paths are tiled, both opaque; they occlude the same tile, whose
\* z-buffer entry holds the higher object index 1; and the first path's
\* alpha tile indices are not those of tiling it alone, the second path
\* having taken an index first.
ParallelTilingWitness ==
    /\ AllTiled
    /\ \E coords \in DOMAIN scene_builder.z_buffer :
          Occluders(coords) = {0, 1} /\ scene_builder.z_buffer[coords] = 1
    /\ tilers[1].built_object.fills # <<>>
    /\ tilers[1].built_object.fills # TiledAlone(1).fills
    /\ tilers[2].built_object.fills[1].alpha_tile_index = 0

\* SpecTiler: the path has been tiled, and then tiled again from a new Tiler
\* for the same outline, view box, path id and paint.
TiledAgain == pc = "tiler" /\ previous # <<>> /\ tilers[1].pc = "done"

\* A fill with its alpha tile index counted from start.
FillFrom(fill, start) == [fill EXCEPT !.alpha_tile_index = @ - start]

Square == << Contour_new(<<0, 32, 32, 0>>, <<0, 0, 32, 32>>) >>
SquareReversed == << Contour_new(<<0, 0, 32, 32>>, <<0, 32, 32, 0>>) >>

\* SpecTiler: the Tiler is done with one of the squares under the view box
\* (0,0)-(64,64).
SquareTiled ==
    /\ pc = "tiler"
    /\ tilers[1].pc = "done"
    /\ tilers[1].outline \in {Square, SquareReversed}
    /\ tilers[1].view_box = RectF_from_points(Vector2I_default, Vector2I_splat(64))

\* C21 as stated: tiling the 32x32 square at the origin under the view box
\* (0,0,64,64) yields the tile rect (0,0)-(2,2) with four solid tiles of
\* backdrop 1, no alpha tiles and no fills.
SquareAllSolid ==
    SquareTiled =>
        LET built_object == tilers[1].built_object
        IN  /\ tile_rect(built_object) = RectF_from_points(Vector2I_default, Vector2I_splat(2))
            /\ \A i \in 1..4 : /\ is_solid(built_object.tiles.data[i])
                               /\ built_object.tiles.data[i].backdrop = 1
            /\ built_object.alpha_tiles = <<>>
            /\ built_object.fills = <<>>

\* C21, amended: the tile rect is (0,0)-(2,2); the two tiles of the top
\* strip keep backdrop 0, no edge being carried into the first strip, and the
\* two tiles of the second strip have backdrop -1 for the vertex order
\* (0,0),(32,0),(32,32),(0,32) and +1 for the opposite order; the top edge
\* emits one fill in each tile of the top strip and the bottom edge, lying on
\* the tile boundary y = 32, one in each tile of the second strip, so there
\* are four fills, every tile is non-solid, and a draw path with paint
\* metadata gets four alpha tiles.
SquareTiles ==
    SquareTiled =>
        LET built_object == tilers[1].built_object
            winding == IF tilers[1].outline = Square THEN 0 - 1 ELSE 1
        IN  /\ tile_rect(built_object) = RectF_from_points(Vector2I_default, Vector2I_splat(2))
            /\ [i \in 1..4 |-> built_object.tiles.data[i].backdrop]
                  = <<0, 0, winding, winding>>
            /\ \A i \in 1..4 : ~is_solid(built_object.tiles.data[i])
            /\ Len(built_object.fills) = 4
            /\ {built_object.fills[i].tile_coords : i \in 1..4}
                  = {Vector2I_new(x, y) : x \in 0..1, y \in 0..1}
            /\ \A i \in 1..4 :
                  /\ built_object.fills[i].from.y = built_object.fills[i].to.y
                  /\ built_object.fills[i].from.y
                        = built_object.fills[i].tile_coords.y * TILE_HEIGHT
                  /\ {built_object.fills[i].from.x, built_object.fills[i].to.x}
                        = {0, TILE_WIDTH}
            /\ Len(built_object.alpha_tiles) =
                  IF tilers[1].id.kind = "Draw" /\ IsSome(tilers[1].paint_metadata)
                  THEN 4 ELSE 0

\* The square has been tiled as a draw path with a paint: four fills and
\* four alpha tiles.
SquareTilesWitness ==
    /\ SquareTiled
    /\ tilers[1].outline = Square
    /\ tilers[1].id.kind = "Draw"
    /\ Len(tilers[1].built_object.fills) = 4
    /\ Len(tilers[1].built_object.alpha_tiles) = 4
    /\ tilers[1].built_object.tiles.data[3].backdrop = 0 - 1

\* The sources of the fills of a Tiler are in the order `before`.
FillSourcesOrdered(tiler, before(_, _)) ==
    /\ Len(tiler.fill_sources) = Len(tiler.built_object.fills)
    /\ \A i \in 1..Len(tiler.fill_sources) :
          tiler.built_object.fills[i].tile_coords.y = tiler.fill_sources[i].strip
    /\ \A i, j \in 1..Len(tiler.fill_sources) :
          i < j => before(tiler.fill_sources[i], tiler.fill_sources[j])

\* C22 as stated: the fills emitted while strip y is processed precede the
\* fills of strip y + 1, and within a strip the fills are in ascending order
\* of the x-intercept of the edge that produced them.
FillEmissionOrder ==
    \A p \in 1..Len(tilers) :
        FillSourcesOrdered(tilers[p],
            LAMBDA a, b : a.strip < b.strip \/ (a.strip = b.strip /\ a.x <= b.x))

\* C22, amended: the fills of strip y precede the fills of strip y + 1;
\* within a strip the fills of the edges carried over from the strip above
\* come first, in ascending order of the x-intercept of the edge, and the
\* fills of the edges activated in the strip follow them, in the order in
\* which the endpoints are popped (ascending y), whatever their x.
FillEmissionOrderByEdgeKind ==
    \A p \in 1..Len(tilers) :
        FillSourcesOrdered(tilers[p],
            LAMBDA a, b :
                \/ a.strip < b.strip
                \/ /\ a.strip = b.strip
                   /\ \/ a.carried /\ ~b.carried
                      \/ a.carried /\ b.carried /\ a.x <= b.x
                      \/ ~a.carried /\ ~b.carried /\ a.y <= b.y)

\* In one strip a fill of a carried-over edge is followed by a fill of an
\* edge activated in the strip that starts left of it, and that one by a
\* fill of the next strip.
FillEmissionOrderWitness ==
    /\ pc = "tiler"
    /\ tilers[1].pc = "done"
    /\ \E i, j, k \in 1..Len(tilers[1].fill_sources) :
          LET a == tilers[1].fill_sources[i]
              b == tilers[1].fill_sources[j]
              c == tilers[1].fill_sources[k]
          IN  /\ i < j /\ j < k
              /\ a.strip = b.strip /\ a.carried /\ ~b.carried /\ b.x < a.x
              /\ c.strip = b.strip + 1

\* The outlines with zero-area bounds: the points of a horizontal line, and
\* a single point.
ZeroAreaOutlines == { << Contour_new(<<0, 32>>, <<8, 8>>) >>, << Contour_new(<<5>>, <<5>>) >> }
\* The outline with no contour to tile, and the outline whose bounds do not
\* intersect the view box.
EmptyOutline == << >>
OutsideOutline == << Contour_new(<<80, 96, 96, 80>>, <<0, 0, 16, 16>>) >>

\* The BuiltObject of a Tiler is empty: no fills, no alpha tiles, no tiles.
EmptyBuiltObject(tiler) ==
    /\ tiler.built_object.fills = <<>>
    /\ tiler.built_object.alpha_tiles = <<>>
    /\ tiler.built_object.tiles.data = <<>>

\* C23 as stated: for an outline with zero-area bounds, with nothing but
\* empty contours, or with bounds that do not intersect the view box,
\* generate_tiles does not panic and leaves a BuiltObject with no fills, no
\* alpha tiles and an empty tile map.
DegenerateGeometryEmpty ==
    \A p \in 1..Len(tilers) :
        tilers[p].outline \in ZeroAreaOutlines \cup {EmptyOutline, OutsideOutline} =>
            /\ tilers[p].pc # "panic"
            /\ EmptyBuiltObject(tilers[p])

\* The number of commands of a kind in a stream.
CountOf(commands, kind) == Cardinality({i \in 1..Len(commands) : commands[i].kind = kind})

GetsAlphaTile(tiler, i) ==
    LET tile == tiler.built_object.tiles.data[i + 1]
    IN  \/ tile.alpha_tile_index # Pow2(16) - 1
        \/ tile.backdrop # 0 /\ ~Unwrap(tiler.paint_metadata).is_opaque

\* The AlphaTile is the one of the tile at tile-map index i: its vertices lie
\* at the offsets (0,0), (1,0), (0,1), (1,1) from the tile and all carry the
\* tile's backdrop, the object index and the mask position of the tile's
\* alpha_tile_index.
AlphaTileOf(tiler, i, alpha_tile) ==
    LET tile == tiler.built_object.tiles.data[i + 1]
        coords == local_tile_index_to_coords(tiler.built_object, i)
        At(vertex, dx, dy) ==
            /\ vertex.tile_x = coords.x + dx /\ vertex.tile_y = coords.y + dy
            /\ vertex.backdrop = tile.backdrop
            /\ vertex.object_index = tiler.id.index
            /\ vertex.mask_u = ((((tile.alpha_tile_index % 256) + dx) * 65535) \div 256) % 65536
            /\ vertex.mask_v = ((((tile.alpha_tile_index \div 256) + dy) * 65535) \div 256) % 65536
    IN  /\ At(alpha_tile.upper_left, 0, 0) /\ At(alpha_tile.upper_right, 1, 0)
        /\ At(alpha_tile.lower_left, 0, 1) /\ At(alpha_tile.lower_right, 1, 1)

\* The AlphaTiles of a finished Tiler are those of the tiles that get one,
\* one each, in tile-map index order.
Classified(tiler) ==
    LET emitting == SelectSeq([k \in 1..Len(tiler.built_object.tiles.data) |-> k - 1],
                              LAMBDA i : GetsAlphaTile(tiler, i))
        alpha_tiles == tiler.built_object.alpha_tiles
    IN  IF tiler.id.kind = "Draw" /\ tiler.paint_metadata # None
        THEN /\ Len(alpha_tiles) = Len(emitting)
             /\ \A k \in 1..Len(emitting) : AlphaTileOf(tiler, emitting[k], alpha_tiles[k])
        ELSE alpha_tiles = <<>>

\* C25: pack_and_cull classification.  For a draw path with paint metadata
\* exactly one AlphaTile, with four vertices at the offsets (0,0), (1,0),
\* (0,1), (1,1) that all carry the tile's backdrop and alpha_tile_index, is
\* emitted in tile-map index order for each tile that is not solid or is
\* solid with nonzero backdrop and a paint that is not opaque; the step for
\* a solid tile with backdrop 0 emits nothing and leaves the z-buffer alone;
\* a path that is no draw path or has no paint metadata emits nothing and
\* leaves the z-buffer alone.
PackAndCullClassification ==
    /\ [](pc = "tiler" => \A p \in 1..Len(tilers) :
                              tilers[p].pc = "done" => Classified(tilers[p]))
    /\ [][pc = "tiler" /\ pc' = "tiler" /\ previous' = previous =>
            \A p \in 1..Len(tilers) :
                LET tiler == tilers[p]
                IN  /\ (/\ tiler.pc = "pack"
                        /\ tiler.built_object.tiles.data[tiler.tile_index + 1]
                              = [alpha_tile_index |-> Pow2(16) - 1, backdrop |-> 0])
                         => /\ scene_builder' = scene_builder
                            /\ tilers'[p].built_object.alpha_tiles
                                  = tiler.built_object.alpha_tiles
                    /\ (tiler.id.kind # "Draw" \/ tiler.paint_metadata = None)
                         => /\ scene_builder'.z_buffer = scene_builder.z_buffer
                            /\ tilers'[p].built_object.alpha_tiles = <<>>]_vars

\* A finished draw path with a paint that is not opaque whose tile map holds
\* a blank tile, a solid tile with nonzero backdrop and a tile with fills:
\* it has fewer AlphaTiles than tiles.
PackAndCullClassificationWitness ==
    /\ pc = "tiler"
    /\ tilers[1].pc = "done"
    /\ tilers[1].id.kind = "Draw"
    /\ tilers[1].paint_metadata = Some([is_opaque |-> FALSE])
    /\ LET tiles == tilers[1].built_object.tiles.data
       IN  /\ \E i \in 1..Len(tiles) : is_solid(tiles[i]) /\ tiles[i].backdrop = 0
           /\ \E i \in 1..Len(tiles) : is_solid(tiles[i]) /\ tiles[i].backdrop # 0
           /\ \E i \in 1..Len(tiles) : ~is_solid(tiles[i])
           /\ 0 < Len(tilers[1].built_object.alpha_tiles)
           /\ Len(tilers[1].built_object.alpha_tiles) < Len(tiles)

\* The value clamped to the range of i8.
ClampToI8(v) == IF v > 127 THEN 127 ELSE IF v < 0 - 128 THEN 0 - 128 ELSE v

\* C26: backdrop propagation stores current_winding clamped to the i8
\* range: the step of process_old_active_edges for an edge leaves, in every
\* tile of the strip from current_tile_x up to the tile left of the edge's,
\* the backdrop 127 when the winding exceeds 127, -128 when it is below
\* -128, and the winding itself otherwise.
BackdropClamped ==
    [][pc = "tiler" /\ pc' = "tiler" /\ tilers[1].pc = "in_strip"
          /\ tilers[1].old_active_edges # <<>> /\ tilers'[1].pc = "in_strip" =>
            LET tiler == tilers[1]
                segment_tile_x == tilers'[1].current_tile_x
                first_tile_x == IF tiler.current_subtile_x > 0
                                THEN tiler.current_tile_x + 1 ELSE tiler.current_tile_x
            IN  \A x \in first_tile_x..(segment_tile_x - 1) :
                    LET index == tile_coords_to_local_index(
                                     tiler.built_object, Vector2I_new(x, tiler.strip_origin_y))
                    IN  IsSome(index) =>
                            tilers'[1].built_object.tiles.data[Unwrap(index) + 1].backdrop
                                = ClampToI8(tiler.current_winding)]_vars

\* C27: for every x-intercept segment_x of an active edge, the negative
\* ones that are no multiples of TILE_WIDTH included, the tile column that
\* process_old_active_edges computes is floor(segment_x / TILE_WIDTH), the
\* quotient rounded towards minus infinity (which is what \div gives).
TileColumnIsFloor ==
    pc = "tiler" =>
        \A i \in 1..Len(tilers[1].crossed) :
            tilers[1].crossed[i].segment_tile_x = tilers[1].crossed[i].x \div TILE_WIDTH

\* C28: generate_strip(strip_y) activates every queued endpoint with
\* y <= (strip_y + 1) * TILE_HEIGHT, the endpoints exactly on the bottom
\* boundary of the strip and those enqueued during the strip included: when
\* it returns, every endpoint still in point_queue has y strictly greater
\* than (strip_y + 1) * TILE_HEIGHT.
StripActivatesItsEndpoints ==
    [][pc = "tiler" /\ pc' = "tiler" /\ tilers[1].pc = "in_strip"
          /\ tilers'[1].pc \in {"strip", "pack", "done"} =>
            \A i \in 1..Len(tilers'[1].point_queue) :
                tilers'[1].point_queue[i].y > (tilers[1].strip_origin_y + 1) * TILE_HEIGHT]_vars

\* The first strip has returned after it activated an endpoint on its bottom
\* boundary that was enqueued during the strip, and endpoints of later
\* strips are still queued.
StripActivatesItsEndpointsWitness ==
    /\ pc = "tiler"
    /\ tilers[1].pc = "strip"
    /\ tilers[1].strip_origin_y = 1
    /\ tilers[1].point_queue # <<>>
    /\ \E i \in 1..Len(tilers[1].popped) :
          /\ tilers[1].popped[i].y = TILE_HEIGHT
          /\ \A k \in 1..Len(init_point_queue(tilers[1].outline)) :
                init_point_queue(tilers[1].outline)[k] # tilers[1].popped[i]

\* The number of entries of the point queue for the endpoint.
TimesQueued(point_queue, contour_index, point) ==
    Cardinality({k \in 1..Len(point_queue) :
                    point_queue[k].point_index = [contour |-> contour_index, point |-> point]})

\* The endpoint is a local minimum: it lies above its previous and its next
\* endpoint, or level with them and before them in the contour.
IsLocalMinimum(contour, point) ==
    LET above(a, b) == \/ contour[a + 1].y < contour[b + 1].y
                       \/ contour[a + 1].y = contour[b + 1].y /\ a < b
    IN  /\ above(point, (point + Len(contour) - 1) % Len(contour))
        /\ above(point, (point + 1) % Len(contour))

\* C29: init_point_queue visits every endpoint of every contour and leaves
\* point_queue holding exactly the local minima, each exactly once: an
\* endpoint is queued if and only if it is logically above both its
\* previous and its next endpoint, and is queued with its own y.
LocalMinimaQueued ==
    (pc = "tiler" /\ tilers[1].pc \in {"strip", "pack", "done"} /\ tilers[1].popped = <<>>) =>
        LET outline == tilers[1].outline
            point_queue == tilers[1].point_queue
        IN  /\ \A c \in 1..Len(outline) : \A point \in 0..(Len(outline[c]) - 1) :
                  /\ TimesQueued(point_queue, c - 1, point)
                        = IF IsLocalMinimum(outline[c], point) THEN 1 ELSE 0
            /\ \A k \in 1..Len(point_queue) :
                  /\ point_queue[k].point_index.contour \in 0..(Len(outline) - 1)
                  /\ point_queue[k].point_index.point
                        \in 0..(Len(outline[point_queue[k].point_index.contour + 1]) - 1)
                  /\ point_queue[k].y =
                        outline[point_queue[k].point_index.contour + 1]
                               [point_queue[k].point_index.point + 1].y

\* The point queue of a contour of four endpoints with two local minima has
\* been initialised, and nothing has been popped.
LocalMinimaQueuedWitness ==
    /\ pc = "tiler"
    /\ tilers[1].pc = "strip"
    /\ tilers[1].popped = <<>>
    /\ Len(tilers[1].outline) = 1
    /\ Len(tilers[1].outline[1]) = 4
    /\ Len(tilers[1].point_queue) = 2

\* The key (y, contour index, point index) of endpoint a is at most that of b.
KeyAtMost(a, b) ==
    \/ a.y < b.y
    \/ a.y = b.y /\ a.point_index.contour < b.point_index.contour
    \/ /\ a.y = b.y /\ a.point_index.contour = b.point_index.contour
       /\ a.point_index.point <= b.point_index.point

\* C30: endpoints are activated top-down.  The endpoint that pop returns,
\* the last of point_queue, has the smallest (y, contour index, point index)
\* of the queued endpoints; every queued endpoint is at or below the
\* endpoint popped last; and the endpoints popped over a run of
\* generate_tiles are non-decreasing in that key.
EndpointsActivatedTopDown ==
    pc = "tiler" =>
        LET point_queue == tilers[1].point_queue
            popped == tilers[1].popped
        IN  /\ \A k \in 1..Len(point_queue) :
                  KeyAtMost(point_queue[Len(point_queue)], point_queue[k])
            /\ popped # <<>> =>
                  \A k \in 1..Len(point_queue) : KeyAtMost(popped[Len(popped)], point_queue[k])
            /\ \A i \in 1..(Len(popped) - 1) : KeyAtMost(popped[i], popped[i + 1])

\* A finished run that popped endpoints of two contours, one endpoint
\* twice in a row and endpoints at different heights.
EndpointsActivatedTopDownWitness ==
    /\ pc = "tiler"
    /\ tilers[1].pc = "done"
    /\ LET popped == tilers[1].popped
       IN  /\ \E i \in 1..(Len(popped) - 1) : popped[i] = popped[i + 1]
           /\ \E i \in 1..(Len(popped) - 1) : popped[i].y < popped[i + 1].y
           /\ \E i, k \in 1..Len(popped) :
                 popped[i].point_index.contour # popped[k].point_index.contour

\* The call of ActiveEdge::process on the edge in the strip of the Tiler
\* moves it along the state machine: a line becomes a line or is consumed,
\* and is consumed when it ends in the strip; a cubic becomes a cubic, a
\* line or is consumed.
ProcessFollowsStateMachine(tiler, edge) ==
    LET after == ActiveEdge_process(edge, [built_object |-> tiler.built_object,
                                           builder |-> scene_builder],
                                    tiler.strip_origin_y).edge.segment
        tile_bottom == (tiler.strip_origin_y + 1) * TILE_HEIGHT
    IN  /\ edge.segment.kind \in {"Line", "Cubic"}
        /\ edge.segment.kind = "Line" => after.kind \in {"Line", "None"}
        /\ edge.segment.kind = "Cubic" => after.kind \in {"Cubic", "Line", "None"}
        /\ (/\ edge.segment.kind = "Line"
            /\ Max(edge.segment.baseline.from.y, edge.segment.baseline.to.y) <= tile_bottom)
              => after.kind = "None"

\* The edges that add_new_active_edge would make of the endpoint on top of
\* the point queue.
EdgesOfTopEndpoint(tiler) ==
    LET point_index == tiler.point_queue[Len(tiler.point_queue)].point_index
        contour == tiler.outline[point_index.contour + 1]
        prev == (point_index.point + Len(contour) - 1) % Len(contour)
        next == (point_index.point + 1) % Len(contour)
    IN  {ActiveEdge_from_segment(segment_after(contour, from)) :
            from \in {from \in {prev, point_index.point} :
                         point_is_logically_above(contour, point_index.point,
                                                  IF from = prev THEN prev ELSE next)}}

ActiveFillsAdded(before, after, c, y) ==
    {k \in (Len(before.fills) + 1)..Len(after.fills) :
        /\ after.fills[k].tile_coords = Vector2I_new(c, y)
        /\ after.fills[k].from.y = 0 /\ after.fills[k].to.y = 0}

\* The step of process_old_active_edges for an edge at x1, the edge before
\* it at x0 and the winding w accumulated up to that edge, covers the part
\* of [x0, x1] in column c of strip y exactly once: a whole tile by a
\* backdrop write of w and no fill, a part of a tile by one active fill over
\* exactly that part, directed by the sign of w (none when w is 0, which
\* marks no coverage), and nothing else is written or emitted in the column.
ColumnCoveredOnce(before, after, x0, x1, w, c, y) ==
    LET lo == Max(x0, c * TILE_WIDTH)
        hi == Min(x1, (c + 1) * TILE_WIDTH)
        index == Unwrap(tile_coords_to_local_index(before, Vector2I_new(c, y)))
        fills == ActiveFillsAdded(before, after, c, y)
        left == Vector2I_new(lo - c * TILE_WIDTH, 0)
        right == Vector2I_new(hi - c * TILE_WIDTH, 0)
    IN  IF hi - lo = TILE_WIDTH
        THEN /\ after.tiles.data[index + 1].backdrop = w
             /\ fills = {}
        ELSE /\ after.tiles.data[index + 1].backdrop = before.tiles.data[index + 1].backdrop
             /\ IF hi <= lo \/ w = 0 THEN fills = {}
                ELSE /\ Cardinality(fills) = 1
                     /\ \A k \in fills :
                           /\ after.fills[k].from = (IF w < 0 THEN left ELSE right)
                           /\ after.fills[k].to = (IF w < 0 THEN right ELSE left)

\* C32: span coverage in process_old_active_edges.  For consecutive
\* carried-over edges of a strip with x-intercepts x0 <= x1, the interval
\* [x0, x1] is covered exactly once over the tiles of the tile map, without
\* gap or overlap: by an active fill from x0 to the right boundary of its
\* tile when x0 is strictly inside a tile and the next edge is in a later
\* tile, by a backdrop write on every whole tile in between, and by an
\* active fill that ends at x1 inside the next edge's tile; each carries the
\* winding accumulated over the edges up to x0.
SpanCoverage ==
    [][(/\ pc = "tiler" /\ pc' = "tiler"
        /\ tilers[1].pc = "in_strip" /\ tilers'[1].pc = "in_strip"
        /\ tilers[1].crossed # <<>>
        /\ Len(tilers'[1].old_active_edges) = Len(tilers[1].old_active_edges) - 1) =>
            LET tiler == tilers[1]
                rect == tile_rect(tiler.built_object)
            IN  /\ tiler.last_segment_x <= tiler.old_active_edges[1].crossing.x
                /\ \A c \in rect.origin.x..(rect.lower_right.x - 1) :
                      ColumnCoveredOnce(tiler.built_object, tilers'[1].built_object,
                                        tiler.last_segment_x,
                                        tiler.old_active_edges[1].crossing.x,
                                        tiler.current_winding, c, tiler.strip_origin_y)]_vars

\* The second edge of a strip has been handled: the edge before it lies
\* strictly inside the first tile and it lies strictly inside the third, so
\* that the first tile got an active fill to its right boundary, the second
\* a backdrop and the third an active fill that ends at the edge.
SpanCoverageWitness ==
    /\ pc = "tiler"
    /\ tilers[1].pc = "in_strip"
    /\ Len(tilers[1].crossed) = 2
    /\ tilers[1].crossed[1].x = TILE_WIDTH \div 2
    /\ tilers[1].crossed[2].x = 2 * TILE_WIDTH + TILE_WIDTH \div 2
    /\ LET built_object == tilers[1].built_object
           at(c) == Unwrap(tile_coords_to_local_index(
                               built_object, Vector2I_new(c, tilers[1].strip_origin_y)))
           active(c) == {k \in 1..Len(built_object.fills) :
                            /\ built_object.fills[k].tile_coords
                                  = Vector2I_new(c, tilers[1].strip_origin_y)
                            /\ built_object.fills[k].from.y = 0
                            /\ built_object.fills[k].to.y = 0}
       IN  /\ built_object.tiles.data[at(1) + 1].backdrop = tilers[1].crossed[1].winding
           /\ Cardinality(active(0)) = 1
           /\ active(1) = {}
           /\ Cardinality(active(2)) = 1

\* C33 (SpecAtlas). After any interleaving of allocate calls and frees of
\* live locations on one atlas, the rectangles of the live allocations are
\* pairwise non-overlapping, and allocate never returns a rectangle that
\* intersects an allocation that has not been freed.
LiveNonOverlap ==
    /\ [](\A a, b \in live : a # b => ~Intersects(a, b))
    /\ [][(/\ lastCall'.op = "atlas_allocate"
           /\ calls' = calls + 1
           /\ IsSome(lastCall'.result))
          => \A rect \in live : ~Intersects(Unwrap(lastCall'.result), rect)]_vars

\* Length 2: the four unit blocks are live and the last call returned the
\* block at the origin, which the first successful call had returned: it
\* was freed in between and allocated again next to live blocks.
LiveNonOverlapWitness ==
    /\ atlas.size = 2
    /\ Cardinality(live) = 4
    /\ lastCall.op = "atlas_allocate"
    /\ lastCall.result = Some(RectI_new(Vector2I_default, Vector2I_splat(1)))

\* The number of Parent nodes at or below the node.
RECURSIVE ParentCount(_)
ParentCount(node) ==
    IF node.tag = "Parent"
    THEN 1 + ParentCount(node.kids[1]) + ParentCount(node.kids[2])
           + ParentCount(node.kids[3]) + ParentCount(node.kids[4])
    ELSE 0

\* C34 (SpecAtlas). free undoes allocate: in every reachable state of the
\* atlas, a successful allocate(size) followed at once by free of the
\* returned rectangle gives back the quadtree as it was before the allocate,
\* without reaching unreachable!(), and the same allocate on it returns the
\* same rectangle.
FreeUndoesAllocate ==
    \A requested_size \in Requests :
        LET allocated == TextureAtlasAllocator_allocate(atlas, requested_size)
        IN  IsSome(allocated.rect)
            => LET freed == TextureAtlasAllocator_free(allocated.atlas, Unwrap(allocated.rect))
               IN  /\ ~freed.panic
                   /\ freed.atlas = atlas
                   /\ TextureAtlasAllocator_allocate(freed.atlas, requested_size).rect
                         = allocated.rect

\* Length 4 with live blocks, after a free: an allocate of a unit block
\* away from the origin splits a node on its way down, which the free that
\* follows has to merge again.
FreeUndoesAllocateWitness ==
    /\ atlas.size = 4
    /\ lastCall.op = "atlas_free"
    /\ live # {}
    /\ LET allocated == TextureAtlasAllocator_allocate(atlas, Vector2I_new(1, 1))
       IN  /\ IsSome(allocated.rect)
           /\ ParentCount(allocated.atlas.root) = ParentCount(atlas.root) + 1
           /\ Unwrap(allocated.rect).origin # Vector2I_default

\* C35 (SpecAtlas). A failed atlas allocation has no effect: when
\* TextureAtlasAllocator::allocate returns None the quadtree is structurally
\* identical to its state before the call and the set of live allocations is
\* unchanged.
FailedAllocateNoEffect ==
    [][(/\ lastCall'.op = "atlas_allocate"
        /\ calls' = calls + 1
        /\ lastCall'.result = None)
       => atlas' = atlas /\ live' = live]_vars

\* Length 4: a request of side 2 failed although it is smaller than the
\* atlas and a unit cell is still empty; the call went through every child
\* of the root, one of them a Parent with an EmptyLeaf.
FailedAllocateNoEffectWitness ==
    /\ atlas.size = 4
    /\ lastCall.op = "atlas_allocate"
    /\ lastCall.result = None
    /\ requested_length(lastCall.size) = 2
    /\ atlas.root.tag = "Parent"
    /\ \E i \in 1..4 : /\ atlas.root.kids[i].tag = "Parent"
                       /\ \E j \in 1..4 : atlas.root.kids[i].kids[j].tag = "EmptyLeaf"

\* Every node on the way from the node to the block of rect, as
\* TreeNode::free walks it, is a Parent, and the block's node is a FullLeaf
\* with the side length and the origin of rect.
RECURSIVE PathToFullLeaf(_, _, _, _)
PathToFullLeaf(node, this_origin, this_size, rect) ==
    IF this_size <= RectI_width(rect)
    THEN /\ this_size = RectI_width(rect)
         /\ this_origin = RectI_origin(rect)
         /\ node.tag = "FullLeaf"
    ELSE /\ node.tag = "Parent"
         /\ PathToFullLeaf(
                node.kids[free_child_index(this_origin, this_size \div 2, rect.origin) + 1],
                kid_origin(this_origin, this_size \div 2,
                           free_child_index(this_origin, this_size \div 2, rect.origin)),
                this_size \div 2, rect)

\* C36 (SpecAtlas). free of a live location never reaches the unreachable!()
\* arm of TreeNode::free: in every reachable state each node on the path
\* from the root to the block of a live allocation is a Parent and the
\* block's own node is a FullLeaf of exactly the allocation's side length
\* and origin.
FreeNeverUnreachable ==
    /\ failure # "unreachable"
    /\ \A rect \in live :
          /\ PathToFullLeaf(atlas.root, Vector2I_default, atlas.size, rect)
          /\ ~TextureAtlasAllocator_free(atlas, rect).panic

\* Length 4, after a free that merged nothing away: a unit block two levels
\* below the root, outside the first quadrant, and a block of side 2 are
\* live.
FreeNeverUnreachableWitness ==
    /\ atlas.size = 4
    /\ lastCall.op = "atlas_free"
    /\ \E rect \in live : RectI_width(rect) = 1 /\ rect.origin.x >= 2
    /\ \E rect \in live : RectI_width(rect) = 2

\* How often process_active_segment was called for the segment of the
\* contour that starts at endpoint `from`.
TimesActivated(tiler, contour, from) ==
    Cardinality({i \in 1..Len(tiler.activated) :
                    tiler.activated[i] = [contour |-> contour, from |-> from]})

\* Every endpoint of every contour of the outline has been popped.
EveryEndpointReached(tiler) ==
    \A c \in 1..Len(tiler.outline) : \A k \in 0..(Len(tiler.outline[c]) - 1) :
        \E i \in 1..Len(tiler.popped) :
            tiler.popped[i].point_index = [contour |-> c - 1, point |-> k]

\* The logically upper endpoint of the segment that starts at `from`.
UpperEndpoint(contour, from) ==
    IF point_is_logically_above(contour, from, next_endpoint_index_of(contour, from))
    THEN from
    ELSE next_endpoint_index_of(contour, from)

\* C37: each contour segment is activated exactly once.  When a
\* generate_tiles run in which every endpoint is reached has ended,
\* process_active_segment has been called exactly once for every segment
\* between adjacent endpoints of every contour of two points or more, and
\* each call is made by the add_new_active_edge that pops the segment's
\* logically upper endpoint.
SegmentsActivatedOnce ==
    /\ [](\A p \in 1..Len(tilers) :
            (pc = "tiler" /\ tilers[p].pc = "done" /\ EveryEndpointReached(tilers[p]))
            => \A c \in 1..Len(tilers[p].outline) :
                  Len(tilers[p].outline[c]) >= 2
                  => \A k \in 0..(Len(tilers[p].outline[c]) - 1) :
                        TimesActivated(tilers[p], c - 1, k) = 1)
    /\ [][(/\ pc = "tiler" /\ pc' = "tiler"
           /\ Len(tilers'[1].popped) = Len(tilers[1].popped) + 1)
          => \A i \in (Len(tilers[1].activated) + 1)..Len(tilers'[1].activated) :
                LET segment == tilers'[1].activated[i]
                    point_index == tilers[1].point_queue[Len(tilers[1].point_queue)].point_index
                IN  /\ segment.contour = point_index.contour
                    /\ UpperEndpoint(tilers[1].outline[segment.contour + 1], segment.from)
                          = point_index.point]_vars

\* A finished run over a contour with slanted and horizontal edges in which
\* every endpoint was reached, one of them, below both its neighbours, was
\* popped twice, and four segments were activated.
SegmentsActivatedOnceWitness ==
    /\ pc = "tiler"
    /\ tilers[1].pc = "done"
    /\ EveryEndpointReached(tilers[1])
    /\ Len(tilers[1].activated) = 4
    /\ Len(tilers[1].popped) > 4
    /\ \E i, k \in 1..Len(tilers[1].popped) : i < k /\ tilers[1].popped[i] = tilers[1].popped[k]

\* C38: the assertion debug_assert_eq!(current_tile_x, segment_tile_x) of
\* process_old_active_edges holds for every carried-over edge of every
\* strip, also for edges left of the tile rect: after the partial fill and
\* the backdrop propagation the running tile column is the tile column
\* computed for the edge's x-intercept, and no Tiler built with debug
\* assertions stops at an edge whose column is left of the running column.
AssertTileColumnHolds ==
    \A p \in 1..Len(tilers) :
        /\ (pc = "tiler" /\ tilers[p].pc = "in_strip" /\ tilers[p].crossed # <<>>)
           => tilers[p].current_tile_x
                 = tilers[p].crossed[Len(tilers[p].crossed)].segment_tile_x
        /\ (pc = "tiler" /\ tilers[p].pc = "panic" /\ tilers[p].old_active_edges # <<>>)
           => tilers[p].current_tile_x
                 <= i32_div(tilers[p].old_active_edges[1].crossing.x, TILE_WIDTH)

\* C39: winding balances in every strip.  For an outline made of closed
\* contours, when process_old_active_edges has handled the last carried-over
\* edge of a strip, current_winding is 0: the +1 and -1 windings of the
\* edges that cross the strip's top boundary cancel, and the tiles of the
\* strip to the right of the last edge have backdrop 0.
WindingBalances ==
    \A p \in 1..Len(tilers) :
        (pc = "tiler" /\ tilers[p].pc = "in_strip" /\ tilers[p].old_active_edges = <<>>)
        => /\ tilers[p].current_winding = 0
           /\ Cardinality({i \in 1..Len(tilers[p].crossed) : tilers[p].crossed[i].winding = 1})
                 = Cardinality({i \in 1..Len(tilers[p].crossed) :
                                   tilers[p].crossed[i].winding = 0 - 1})
           /\ \A c \in tile_rect(tilers[p].built_object).origin.x
                        ..(tile_rect(tilers[p].built_object).lower_right.x - 1) :
                 (/\ tilers[p].crossed # <<>>
                  /\ c > tilers[p].crossed[Len(tilers[p].crossed)].segment_tile_x)
                 => tilers[p].built_object.tiles.data[
                        Unwrap(tile_coords_to_local_index(
                                   tilers[p].built_object,
                                   Vector2I_new(c, tilers[p].strip_origin_y))) + 1].backdrop = 0

\* The two edges of the second of two contours have been handled in a
\* strip, one going down and one going up, and the tile rect has a column to
\* the right of the last edge.
WindingBalancesWitness ==
    /\ pc = "tiler"
    /\ tilers[1].pc = "in_strip"
    /\ tilers[1].old_active_edges = <<>>
    /\ Len(tilers[1].outline) = 2
    /\ Len(tilers[1].crossed) = 2
    /\ tilers[1].current_winding = 0
    /\ tilers[1].crossed[1].winding # tilers[1].crossed[2].winding
    /\ tilers[1].crossed[2].segment_tile_x
          < tile_rect(tilers[1].built_object).lower_right.x - 1

\* Every point of the outline lies inside the view box.
InsideViewBox(tiler) ==
    \A c \in 1..Len(tiler.outline) : \A k \in 1..Len(tiler.outline[c]) :
        /\ tiler.view_box.origin.x <= tiler.outline[c][k].x
        /\ tiler.outline[c][k].x <= tiler.view_box.lower_right.x
        /\ tiler.view_box.origin.y <= tiler.outline[c][k].y
        /\ tiler.outline[c][k].y <= tiler.view_box.lower_right.y

\* Every endpoint of every contour of two points or more has been popped.
EveryEndpointOfASegmentReached(tiler) ==
    \A c \in 1..Len(tiler.outline) :
        Len(tiler.outline[c]) >= 2
        => \A k \in 0..(Len(tiler.outline[c]) - 1) :
              \E i \in 1..Len(tiler.popped) :
                  tiler.popped[i].point_index = [contour |-> c - 1, point |-> k]

\* The edges that are still active when a strip has ended all reach below
\* the strip.
ActiveEdgesReachBelow(tiler) ==
    \A i \in 1..Len(tiler.active_edges) :
        /\ tiler.active_edges[i].segment.kind # "None"
        /\ Max(tiler.active_edges[i].segment.baseline.from.y,
               tiler.active_edges[i].segment.baseline.to.y)
              > tiler.strip_origin_y * TILE_HEIGHT

\* C40 as stated: generate_tiles terminates for every finite outline (it
\* returns, or a debug assertion stops it), and when the outline lies inside
\* the view box it ends with point_queue empty and active_edges empty: every
\* endpoint has been popped, and every activated edge is consumed by the
\* strip that contains its lower endpoint.
GenerateTilesPopsEveryEndpoint ==
    /\ <>[](pc = "tiler" /\ tilers[1].pc \in {"done", "panic"})
    /\ [](\A p \in 1..Len(tilers) :
            (pc = "tiler" /\ InsideViewBox(tilers[p]))
            => /\ tilers[p].pc = "done"
                  => /\ tilers[p].point_queue = <<>>
                     /\ tilers[p].active_edges = <<>>
                     /\ EveryEndpointReached(tilers[p])
               /\ tilers[p].pc \in {"strip", "pack", "done"}
                  => ActiveEdgesReachBelow(tilers[p]))

\* C40, amended: generate_tiles terminates for every finite outline (it
\* returns, or a debug assertion stops it), and when the outline lies inside
\* the view box it ends with point_queue empty and active_edges empty: every
\* endpoint of every contour of two points or more has been popped (the
\* endpoint of a contour of one point is never queued), and the edges that
\* are still active when a strip has ended all reach below the strip, so
\* that every activated edge is consumed by the strip that contains its
\* lower endpoint.
GenerateTilesTerminates ==
    /\ <>[](pc = "tiler" /\ tilers[1].pc \in {"done", "panic"})
    /\ [](\A p \in 1..Len(tilers) :
            (pc = "tiler" /\ InsideViewBox(tilers[p]))
            => /\ tilers[p].pc = "done"
                  => /\ tilers[p].point_queue = <<>>
                     /\ tilers[p].active_edges = <<>>
                     /\ tilers[p].old_active_edges = <<>>
                     /\ EveryEndpointOfASegmentReached(tilers[p])
               /\ tilers[p].pc \in {"strip", "pack", "done"}
                  => ActiveEdgesReachBelow(tilers[p]))

\* A run over an outline inside the view box has ended after three strips:
\* it popped more endpoints than the outline has and activated four edges,
\* and the path was tiled before.
GenerateTilesTerminatesWitness ==
    /\ pc = "tiler"
    /\ previous # <<>>
    /\ tilers[1].pc = "done"
    /\ InsideViewBox(tilers[1])
    /\ tilers[1].strip_origin_y = 3
    /\ Len(tilers[1].activated) = 4
    /\ Len(tilers[1].popped) > 4
    /\ tilers[1].point_queue = <<>>
    /\ tilers[1].active_edges = <<>>
====
